---- MODULE Spec2Model ----
(***************************************************************************)
(* Page read with lookaside instantiation (src/src/btree/bt_read.c) and    *)
(* replication recovery (src/src/mongo/db/repl/replication_recovery.cpp).  *)
(***************************************************************************)
EXTENDS Integers, Sequences, FiniteSets, TLC

(***************************************************************************)
(* Bounds of the model.                                                    *)
(***************************************************************************)
\* Number of sessions that fault the same ref concurrently.
NumActors == 2
\* Largest number of entries in the lookaside table of SpecLas.
MaxLas == 3
\* Largest timestamp of an oplog entry.
MaxTs == 3
\* Calls of recoverFromOplog in one run of the process.
MaxCalls == 2
\* Largest number of operations in one applier batch.
MaxBatchOps == 2

Actors == 1..NumActors

(***************************************************************************)
(* Lookaside table: composite key (id, addr, txnid, counter, key), value   *)
(* (upd_txnid, upd_size, payload).                                         *)
(***************************************************************************)
\* A null pointer, and a cursor that ran off the table (WT_NOTFOUND).
NULL == [null |-> TRUE]
NoEntry == [notfound |-> TRUE]

\* The reserved size that marks a tombstone: UINT32_MAX, all 32 bits set.
WT_UPDATE_DELETED_VALUE == -1

\* Transaction ids, update counters and user keys of the entries.
TxnIds == {1, 2}
Counters == {1, 2}
UserKeys == {1, 2}

\* The prefix (btree->id, addr) of the block behind the ref.
ReadPrefix == [id |-> 1, addr |-> <<1>>]

\* The values stored in the table: (upd_txnid, upd_size).
LasValues ==
    { [upd_txnid |-> 1, upd_size |-> WT_UPDATE_DELETED_VALUE],
      [upd_txnid |-> 2, upd_size |-> 1] }

LasEntry(id, addr, txnid, counter, key, v) ==
    [id |-> id, addr |-> addr, txnid |-> txnid, counter |-> counter, key |-> key,
     upd_txnid |-> v.upd_txnid, upd_size |-> v.upd_size]

\* Entries of the block being read.
BlockEntries ==
    { LasEntry(ReadPrefix.id, ReadPrefix.addr, t, c, k, v) :
        t \in TxnIds, c \in Counters, k \in UserKeys, v \in LasValues }

\* Entries of other blocks: a smaller address of the same size, a larger address
\* of the same size, a longer address that starts with the same bytes, and
\* another tree with the same address.
OtherEntries ==
    { LasEntry(p.id, p.addr, 1, 1, 1, [upd_txnid |-> 2, upd_size |-> 1]) :
        p \in { [id |-> 1, addr |-> <<0>>], [id |-> 1, addr |-> <<2>>],
                [id |-> 1, addr |-> <<1, 1>>], [id |-> 2, addr |-> <<1>>] } }

LasUniverse == BlockEntries \cup OtherEntries

\* The packed key: a 'u' item that is not last carries its length first.
LasKey(e) == <<e.id, Len(e.addr)>> \o e.addr \o <<e.txnid, e.counter, e.key>>

\* Byte-wise comparison of two packed keys.
KeyLess(s, t) ==
    \/ \E i \in 1..Len(s) :
         /\ i <= Len(t)
         /\ s[i] < t[i]
         /\ \A j \in 1..(i - 1) : s[j] = t[j]
    \/ /\ Len(s) < Len(t)
       /\ \A j \in 1..Len(s) : s[j] = t[j]

\* The key the scan searches for: set_key(id, addr, 0, 0, empty key).
SearchKey(id, addr) == <<id, Len(addr)>> \o addr \o <<0, 0, 0>>

\* cursor->next from a position k: the smallest entry above k.
CursorNext(T, k) ==
    LET above == {e \in T : KeyLess(k, LasKey(e))}
    IN  IF above = {} THEN NoEntry
        ELSE CHOOSE e \in above : \A f \in above : f = e \/ KeyLess(LasKey(e), LasKey(f))

\* cursor->prev from a position k: the largest entry below k.
CursorPrev(T, k) ==
    LET below == {e \in T : KeyLess(LasKey(e), k)}
    IN  IF below = {} THEN NoEntry
        ELSE CHOOSE e \in below : \A f \in below : f = e \/ KeyLess(LasKey(f), LasKey(e))

\* cursor->search_near: the outcomes <<entry, exact>>; an exact match, or a
\* neighbour on either side of the search key.
SearchNear(T, k) ==
    LET eq == {e \in T : LasKey(e) = k}
    IN  IF eq # {} THEN {<<e, 0>> : e \in eq}
        ELSE {r \in {<<CursorPrev(T, k), -1>>, <<CursorNext(T, k), 1>>} : r[1] # NoEntry}

\* The table in cursor order.
RECURSIVE SortEntries(_)
SortEntries(T) ==
    IF T = {} THEN <<>>
    ELSE LET m == CHOOSE e \in T : \A f \in T : f = e \/ KeyLess(LasKey(e), LasKey(f))
         IN  <<m>> \o SortEntries(T \ {m})

\* PrefixMatch without the comparison of the sizes: memcmp over addr_size bytes.
PrefixMatchBytes(e, id, addr) ==
    ~ ( \/ e.id # id
        \/ \E i \in 1..Len(addr) : i <= Len(e.addr) /\ e.addr[i] # addr[i] )

\* The prefix test of both scans: tree id, address size, address bytes.
PrefixMatch(e, id, addr) ==
    ~ ( \/ e.id # id
        \/ Len(e.addr) # Len(addr)
        \/ \E i \in 1..Len(addr) : e.addr[i] # addr[i] )

\* The entries of one block, in cursor order.
BlockSeq(T, id, addr) == SortEntries({e \in T : e.id = id /\ e.addr = addr})

\* "a set of in-order updates for a key, then another set of in-order updates
\* for a subsequent key": the entries of one user key are contiguous.
KeysContiguous(T) ==
    LET s == BlockSeq(T, ReadPrefix.id, ReadPrefix.addr)
    IN  \A i, j, l \in 1..Len(s) :
            (i < j /\ j < l /\ s[i].key = s[l].key) => s[j].key = s[i].key

RECURSIVE SubsetsUpTo(_, _)
SubsetsUpTo(U, n) ==
    IF n = 0 THEN {{}}
    ELSE LET S == SubsetsUpTo(U, n - 1)
         IN  S \cup {s \cup {e} : s \in S, e \in U}

\* The tables the store can hold: keys are unique, user keys contiguous.
LasTables(n) ==
    { T \in SubsetsUpTo(LasUniverse, n) :
        /\ \A e, f \in T : LasKey(e) = LasKey(f) => e = f
        /\ KeysContiguous(T) }

(***************************************************************************)
(* State.                                                                  *)
(***************************************************************************)
VARIABLES
    ref,             \* WT_REF: state, page, and whether it carries an address
    las,             \* the lookaside table
    las_update,      \* WT_PAGE_LAS_UPDATE in the header of the block on disk
    las_written,     \* __wt_las_is_written
    oldest_id,       \* transaction ids below it are visible to all
    heap,            \* WT_UPDATE structures allocated and not freed
    pc,              \* where each session is in __wt_cache_read
    previous_state,  \* per session, locals of __wt_cache_read
    ret,
    tmp,
    nread,           \* block reads each session has performed
    cursor,          \* per session, locals of __las_page_instantiate
    first_upd,
    upd,
    total_incr,
    current_key,
    rpc,             \* where each caller is in __wt_las_remove_block
    rcursor,
    rret,
    oplog,           \* local.oplog.rs: the timestamps of its entries
    markers,         \* ReplicationConsistencyMarkers
    storage,         \* StorageInterface and the storage engine
    inReplicationRecovery,
    applied,         \* the operations applied to the data, in order
    calls,           \* calls of recoverFromOplog so far
    rec_pc,          \* where the thread is in recoverFromOplog
    fatal,           \* the assertion that ended the process
    arg,             \* the stableTimestamp the caller passes to recoverFromOplog
    loc,             \* locals of recoverFromOplog and of the functions it calls
    history          \* the call in progress or last made: the function, the
                     \* state it was called in and the effects it had, in order

shared == <<ref, las, las_update, las_written, oldest_id, heap>>
readv == <<pc, previous_state, ret, tmp, nread>>
lasv == <<cursor, first_upd, upd, total_incr, current_key>>
remv == <<rpc, rcursor, rret>>
btvars == <<shared, readv, lasv, remv>>
durable == <<oplog, markers, storage>>
recproc == <<inReplicationRecovery, applied, calls, rec_pc, fatal, arg, loc, history>>
recvars == <<durable, recproc>>

\* Callers of __wt_las_remove_block.
Removers == {1, 2}

WT_REF_DISK == "DISK"
WT_REF_DELETED == "DELETED"
WT_REF_LOCKED == "LOCKED"
WT_REF_MEM == "MEM"
WT_REF_READING == "READING"
WT_REF_SPLIT == "SPLIT"

\* The type of the page behind the ref: a row-store leaf or a column-store
\* leaf (fixed and variable length take the same path through the code).
PageTypes == {"WT_PAGE_ROW_LEAF", "WT_PAGE_COL_VAR"}

\* __wt_txn_visible_all: the id is older than every running transaction.
VisibleAll(id) == id < oldest_id

\* The highest value the oldest id takes: every id of TxnIds visible.
OldestIds == TxnIds \cup {t + 1 : t \in TxnIds}

\* A page as __wt_page_inmem and __wt_btree_new_leaf_page build it.
NewPage(type) ==
    [type |-> type, upd |-> [k \in UserKeys |-> <<>>], memory_footprint |-> 0,
     dirty |-> FALSE, deleted |-> FALSE]

\* The update structures a page owns.
PageUpdates(p) ==
    IF p = NULL THEN {} ELSE UNION {{p.upd[k][i] : i \in 1..Len(p.upd[k])} : k \in UserKeys}

\* __wt_update_alloc: the structure built from a lookaside value, and its size.
UpdateAlloc(e, a) == [txnid |-> e.upd_txnid, size |-> e.upd_size, src |-> e, by |-> a]
UpdateMemsize(u) == IF u.size = WT_UPDATE_DELETED_VALUE THEN 1 ELSE 1 + u.size

\* __row_instantiate, __col_instantiate: search the page for the key and hang
\* the update list on it; the page is marked dirty.
Instantiate(p, key, list) == [p EXCEPT !.upd[key] = list, !.dirty = TRUE]

\* FreeUpdates without the free of the single unlinked structure.
FreeUpdatesListOnly(h, u, list) == h \ {list[i] : i \in 1..Len(list)}

\* __wt_free(upd) and __wt_free_update_list(first_upd) at the err label.
FreeUpdates(h, u, list) ==
    (h \ (IF u = NULL THEN {} ELSE {u})) \ {list[i] : i \in 1..Len(list)}

\* __wt_ref_out: discard the page of the ref with everything it owns.
RefOut(h, p) == h \ PageUpdates(p)

Upd(f, a, v) == [f EXCEPT ![a] = v]

(***************************************************************************)
(* __wt_cache_read.                                                        *)
(***************************************************************************)
\* CasDisk without the comparison of a compare-and-swap: the state is stored
\* although another session is already reading.
CasDiskRacy(a) ==
    /\ pc[a] = "cas_disk"
    /\ IF ref.state \in {WT_REF_DISK, WT_REF_READING}
          THEN /\ ref' = [ref EXCEPT !.state = WT_REF_READING]
               /\ previous_state' = Upd(previous_state, a, WT_REF_DISK)
               /\ pc' = Upd(pc, a, "ref_info")
          ELSE /\ pc' = Upd(pc, a, "cas_deleted")
               /\ UNCHANGED <<ref, previous_state>>
    /\ UNCHANGED <<las, las_update, las_written, oldest_id, heap, ret, tmp, nread, lasv, remv>>
    /\ UNCHANGED recvars

\* __wt_atomic_casv32(&ref->state, WT_REF_DISK, WT_REF_READING)
CasDisk(a) ==
    /\ pc[a] = "cas_disk"
    /\ IF ref.state = WT_REF_DISK
          THEN /\ ref' = [ref EXCEPT !.state = WT_REF_READING]
               /\ previous_state' = Upd(previous_state, a, WT_REF_DISK)
               /\ pc' = Upd(pc, a, "ref_info")
          ELSE /\ pc' = Upd(pc, a, "cas_deleted")
               /\ UNCHANGED <<ref, previous_state>>
    /\ UNCHANGED <<las, las_update, las_written, oldest_id, heap, ret, tmp, nread, lasv, remv>>
    /\ UNCHANGED recvars

\* CasDeleted storing WT_REF_READING where WT_REF_LOCKED is meant.
CasDeletedReading(a) ==
    /\ pc[a] = "cas_deleted"
    /\ IF ref.state = WT_REF_DELETED
          THEN /\ ref' = [ref EXCEPT !.state = WT_REF_READING]
               /\ previous_state' = Upd(previous_state, a, WT_REF_DELETED)
               /\ pc' = Upd(pc, a, "ref_info")
               /\ UNCHANGED ret
          ELSE /\ pc' = Upd(pc, a, "done")
               /\ ret' = Upd(ret, a, "ok")
               /\ UNCHANGED <<ref, previous_state>>
    /\ UNCHANGED <<las, las_update, las_written, oldest_id, heap, tmp, nread, lasv, remv>>
    /\ UNCHANGED recvars

\* __wt_atomic_casv32(&ref->state, WT_REF_DELETED, WT_REF_LOCKED), else return (0)
CasDeleted(a) ==
    /\ pc[a] = "cas_deleted"
    /\ IF ref.state = WT_REF_DELETED
          THEN /\ ref' = [ref EXCEPT !.state = WT_REF_LOCKED]
               /\ previous_state' = Upd(previous_state, a, WT_REF_DELETED)
               /\ pc' = Upd(pc, a, "ref_info")
               /\ UNCHANGED ret
          ELSE /\ pc' = Upd(pc, a, "done")
               /\ ret' = Upd(ret, a, "ok")
               /\ UNCHANGED <<ref, previous_state>>
    /\ UNCHANGED <<las, las_update, las_written, oldest_id, heap, tmp, nread, lasv, remv>>
    /\ UNCHANGED recvars

\* A call that fails: WT_ERR sets ret and jumps to err.
Fail(a) ==
    /\ pc' = Upd(pc, a, "err")
    /\ ret' = Upd(ret, a, "error")

\* __wt_ref_info: the address of the block, NULL when the ref has none.
RefInfo(a) ==
    /\ pc[a] = "ref_info"
    /\ \/ Fail(a)
       \/ /\ pc' = Upd(pc, a, IF ref.has_addr THEN "bt_read" ELSE "new_leaf")
          /\ UNCHANGED ret
    /\ UNCHANGED <<shared, previous_state, tmp, nread, lasv, remv>>
    /\ UNCHANGED recvars

\* addr == NULL: __wt_btree_new_leaf_page, ref->page = page
NewLeafPage(a) ==
    /\ pc[a] = "new_leaf"
    /\ \/ Fail(a) /\ UNCHANGED ref
       \/ /\ ref' = [ref EXCEPT !.page = NewPage("WT_PAGE_ROW_LEAF")]
          /\ pc' = Upd(pc, a, "verbose")
          /\ UNCHANGED ret
    /\ UNCHANGED <<las, las_update, las_written, oldest_id, heap, previous_state, tmp, nread,
                   lasv, remv>>
    /\ UNCHANGED recvars

\* __wt_bt_read: the block lands in tmp
BtRead(a) ==
    /\ pc[a] = "bt_read"
    /\ nread' = Upd(nread, a, nread[a] + 1)
    /\ \/ Fail(a) /\ UNCHANGED tmp
       \/ /\ tmp' = Upd(tmp, a, "image")
          /\ pc' = Upd(pc, a, "page_inmem")
          /\ UNCHANGED ret
    /\ UNCHANGED <<shared, previous_state, lasv, remv>>
    /\ UNCHANGED recvars

\* __wt_page_inmem: on success the page is on the ref and owns the image
\* (tmp.mem = NULL); on failure the page is gone and the image is still in tmp.
PageInmem(a) ==
    /\ pc[a] = "page_inmem"
    /\ \/ Fail(a) /\ UNCHANGED <<ref, tmp>>
       \/ /\ \E t \in PageTypes : ref' = [ref EXCEPT !.page = NewPage(t)]
          /\ tmp' = Upd(tmp, a, "clear")
          /\ pc' = Upd(pc, a, IF previous_state[a] = WT_REF_DELETED
                                THEN "delete_instantiate" ELSE "las_check")
          /\ UNCHANGED ret
    /\ UNCHANGED <<las, las_update, las_written, oldest_id, heap, previous_state, nread,
                   lasv, remv>>
    /\ UNCHANGED recvars

\* previous_state == WT_REF_DELETED: __wt_delete_page_instantiate
DeletePageInstantiate(a) ==
    /\ pc[a] = "delete_instantiate"
    /\ \/ Fail(a) /\ UNCHANGED ref
       \/ /\ ref' = [ref EXCEPT !.page.deleted = TRUE, !.page.dirty = TRUE]
          /\ pc' = Upd(pc, a, "las_check")
          /\ UNCHANGED ret
    /\ UNCHANGED <<las, las_update, las_written, oldest_id, heap, previous_state, tmp, nread,
                   lasv, remv>>
    /\ UNCHANGED recvars

\* LasCheck with the page published as soon as it is built, before the
\* lookaside records are instantiated.
LasCheckPublish(a) ==
    /\ pc[a] = "las_check"
    /\ pc' = Upd(pc, a, IF las_update /\ las_written THEN "las_open" ELSE "verbose")
    /\ ref' = [ref EXCEPT !.state = WT_REF_MEM]
    /\ UNCHANGED <<las, las_update, las_written, oldest_id, heap, previous_state, ret, tmp,
                   nread, lasv, remv>>
    /\ UNCHANGED recvars

\* F_ISSET(dsk, WT_PAGE_LAS_UPDATE) && __wt_las_is_written(session)
LasCheck(a) ==
    /\ pc[a] = "las_check"
    /\ pc' = Upd(pc, a, IF las_update /\ las_written THEN "las_open" ELSE "verbose")
    /\ UNCHANGED <<shared, previous_state, ret, tmp, nread, lasv, remv>>
    /\ UNCHANGED recvars

\* Verbose with WT_RET where WT_ERR is meant: the failure returns at once,
\* past the err label.
VerboseRet(a) ==
    /\ pc[a] = "verbose"
    /\ \/ pc' = Upd(pc, a, "done") /\ ret' = Upd(ret, a, "error")
       \/ pc' = Upd(pc, a, "publish") /\ UNCHANGED ret
    /\ UNCHANGED <<shared, previous_state, tmp, nread, lasv, remv>>
    /\ UNCHANGED recvars

\* __wt_verbose
Verbose(a) ==
    /\ pc[a] = "verbose"
    /\ \/ Fail(a)
       \/ pc' = Upd(pc, a, "publish") /\ UNCHANGED ret
    /\ UNCHANGED <<shared, previous_state, tmp, nread, lasv, remv>>
    /\ UNCHANGED recvars

\* PublishMem storing the previous state where WT_REF_MEM is meant.
PublishPrevious(a) ==
    /\ pc[a] = "publish"
    /\ ref' = [ref EXCEPT !.state = previous_state[a]]
    /\ pc' = Upd(pc, a, "done")
    /\ ret' = Upd(ret, a, "ok")
    /\ UNCHANGED <<las, las_update, las_written, oldest_id, heap, previous_state, tmp, nread,
                   lasv, remv>>
    /\ UNCHANGED recvars

\* WT_PUBLISH(ref->state, WT_REF_MEM); return (0)
PublishMem(a) ==
    /\ pc[a] = "publish"
    /\ ref' = [ref EXCEPT !.state = WT_REF_MEM]
    /\ pc' = Upd(pc, a, "done")
    /\ ret' = Upd(ret, a, "ok")
    /\ UNCHANGED <<las, las_update, las_written, oldest_id, heap, previous_state, tmp, nread,
                   lasv, remv>>
    /\ UNCHANGED recvars

\* ErrRef without the store of the previous state.
ErrRefKeepState(r, prev) == [r EXCEPT !.page = NULL]

\* The state the err label leaves in the ref, and what it frees.
ErrRef(r, prev) == [r EXCEPT !.page = NULL, !.state = prev]
ErrHeap(h, p) == IF p # NULL THEN RefOut(h, p) ELSE h

\* err: __wt_ref_out if the ref has a page, WT_PUBLISH(ref->state,
\* previous_state), __wt_buf_free(&tmp), return (ret)
Err(a) ==
    /\ pc[a] = "err"
    /\ heap' = ErrHeap(heap, ref.page)
    /\ ref' = ErrRef(ref, previous_state[a])
    /\ tmp' = Upd(tmp, a, "clear")
    /\ pc' = Upd(pc, a, "done")
    /\ UNCHANGED <<las, las_update, las_written, oldest_id, previous_state, ret, nread,
                   lasv, remv>>
    /\ UNCHANGED recvars

(***************************************************************************)
(* __las_page_instantiate.                                                 *)
(***************************************************************************)
\* WT_ERR inside __las_page_instantiate: ret is set, control goes to its err label.
LasFail(a) ==
    /\ pc' = Upd(pc, a, "las_err")
    /\ ret' = Upd(ret, a, "error")

\* The scratch buffers and the lookaside cursor: __wt_scr_alloc, __wt_las_cursor
LasOpen(a) ==
    /\ pc[a] = "las_open"
    /\ \/ LasFail(a)
       \/ pc' = Upd(pc, a, "las_search") /\ UNCHANGED ret
    /\ UNCHANGED <<shared, previous_state, tmp, nread, lasv, remv>>
    /\ UNCHANGED recvars

\* Where a prefix scan starts: search_near, and one step forward if the
\* cursor landed before the search key.  r is search_near's outcome.
ScanStart(T, r) == IF r[2] < 0 THEN CursorNext(T, LasKey(r[1])) ELSE r[1]

\* set_key(read_id, addr, 0, 0, empty); search_near; if exact < 0, next
LasSearch(a) ==
    /\ pc[a] = "las_search"
    /\ LET found == SearchNear(las, SearchKey(ReadPrefix.id, ReadPrefix.addr))
       IN  \/ LasFail(a) /\ UNCHANGED cursor
           \/ /\ found = {}
              /\ pc' = Upd(pc, a, "las_finish")
              /\ UNCHANGED <<ret, cursor>>
           \/ \E r \in found :
                /\ cursor' = Upd(cursor, a, ScanStart(las, r))
                /\ pc' = Upd(pc, a, IF cursor'[a] = NoEntry THEN "las_finish" ELSE "las_loop")
                /\ UNCHANGED ret
    /\ UNCHANGED <<shared, previous_state, tmp, nread, first_upd, upd, total_incr,
                   current_key, remv>>
    /\ UNCHANGED recvars

\* LasSkip testing the transaction id of the value, not the one of the key.
LasSkipOnValue(e) == VisibleAll(e.upd_txnid)

\* "If the on-page value has become globally visible, this record is no
\* longer needed": __wt_txn_visible_all(session, las_txnid)
LasSkip(e) == VisibleAll(e.txnid)

\* The calls of one pass through the loop that can fail.
LoopCalls == {"none", "get_key", "get_value", "update_alloc", "vunpack_uint",
              "instantiate", "buf_set", "next"}

\* Link putting the latest update at the head of the list.
LinkAtHead(L) == [L EXCEPT !.first_upd = <<L.upd>> \o @, !.upd = NULL]

\* Append the latest update to the list.
Link(L) == [L EXCEPT !.first_upd = Append(@, L.upd), !.upd = NULL]

\* FlushList that inserts nothing: the list goes on under the next key.
FlushListKept(L) == L

\* The user key changed: insert the list built for the previous key, if any.
FlushList(L) ==
    IF L.first_upd # <<>>
      THEN [L EXCEPT !.page = Instantiate(@, L.current_key, L.first_upd), !.first_upd = <<>>]
      ELSE L

\* One pass through the body of the loop for the entry e under the cursor;
\* f is the call that fails in this pass.  out: "next" (go on to
\* cursor->next), "break" (the prefix differs) or "error".
LoopBody(L, e, a, f) ==
    IF f = "get_key" THEN [L EXCEPT !.out = "error"]
    ELSE IF ~PrefixMatch(e, ReadPrefix.id, ReadPrefix.addr) THEN [L EXCEPT !.out = "break"]
    ELSE IF LasSkip(e) THEN L
    ELSE IF f \in {"get_value", "update_alloc"} THEN [L EXCEPT !.out = "error"]
    ELSE
      LET u == UpdateAlloc(e, a)
          L1 == [L EXCEPT !.upd = u, !.heap = @ \cup {u},
                          !.total_incr = @ + UpdateMemsize(u)]
      IN  IF L1.page.type = "WT_PAGE_COL_VAR" /\ f = "vunpack_uint"
            THEN [L1 EXCEPT !.out = "error"]
          ELSE IF L1.current_key = e.key THEN Link(L1)
          ELSE IF L1.first_upd # <<>> /\ f = "instantiate" THEN [L1 EXCEPT !.out = "error"]
          ELSE IF L1.page.type = "WT_PAGE_ROW_LEAF" /\ f = "buf_set"
            THEN [FlushList(L1) EXCEPT !.out = "error"]
          ELSE Link([FlushList(L1) EXCEPT !.current_key = e.key])

\* for (; ret == 0; ret = cursor->next(cursor)) { ... }: one pass and the step
LasLoop(a) ==
    /\ pc[a] = "las_loop"
    /\ \E f \in LoopCalls :
        LET e == cursor[a]
            L0 == [out |-> "next", first_upd |-> first_upd[a], upd |-> upd[a],
                   total_incr |-> total_incr[a], current_key |-> current_key[a],
                   page |-> ref.page, heap |-> heap]
            L == LoopBody(L0, e, a, f)
            nxt == CursorNext(las, LasKey(e))
        IN  /\ first_upd' = Upd(first_upd, a, L.first_upd)
            /\ upd' = Upd(upd, a, L.upd)
            /\ total_incr' = Upd(total_incr, a, L.total_incr)
            /\ current_key' = Upd(current_key, a, L.current_key)
            /\ ref' = [ref EXCEPT !.page = L.page]
            /\ heap' = L.heap
            /\ IF L.out = "error" \/ (L.out = "next" /\ f = "next")
                 THEN LasFail(a) /\ UNCHANGED cursor
               ELSE IF L.out = "break"
                 THEN /\ pc' = Upd(pc, a, "las_finish")
                      /\ UNCHANGED <<ret, cursor>>
               ELSE /\ cursor' = Upd(cursor, a, nxt)
                    /\ pc' = Upd(pc, a, IF nxt = NoEntry THEN "las_finish" ELSE "las_loop")
                    /\ UNCHANGED ret
    /\ UNCHANGED <<las, las_update, las_written, oldest_id, previous_state, tmp, nread, remv>>
    /\ UNCHANGED recvars

\* return (ret): the cursor and the scratch buffers are released, the other
\* locals are dead.
LasReturn(a) ==
    /\ cursor' = Upd(cursor, a, NoEntry)
    /\ total_incr' = Upd(total_incr, a, 0)
    /\ current_key' = Upd(current_key, a, 0)

\* The calls after the loop that can fail.
FinishCalls == {"none", "instantiate", "cursor_close", "btcur_close"}

\* InmemIncr without __wt_page_modify_clear.
InmemIncrKeepDirty(p, incr) ==
    IF incr # 0 THEN [p EXCEPT !.memory_footprint = @ + incr] ELSE p

\* __wt_cache_page_inmem_incr and __wt_page_modify_clear, if total_incr != 0
InmemIncr(p, incr) ==
    IF incr # 0
      THEN [p EXCEPT !.memory_footprint = @ + incr, !.dirty = FALSE]
      ELSE p

\* After the loop: insert the last list, close the cursor, account for the
\* memory and clear the dirty bit; then the err label, where nothing is left
\* to free, and the return to __wt_cache_read.
LasFinish(a) ==
    /\ pc[a] = "las_finish"
    /\ \E f \in FinishCalls :
        LET flushed == IF first_upd[a] # <<>>
                         THEN Instantiate(ref.page, current_key[a], first_upd[a])
                         ELSE ref.page
        IN  IF first_upd[a] # <<>> /\ f = "instantiate"
              THEN LasFail(a) /\ UNCHANGED <<ref, first_upd>>
            ELSE IF f = "cursor_close"
              THEN /\ LasFail(a)
                   /\ ref' = [ref EXCEPT !.page = flushed]
                   /\ first_upd' = Upd(first_upd, a, <<>>)
            ELSE /\ ref' = [ref EXCEPT !.page = InmemIncr(flushed, total_incr[a])]
                 /\ first_upd' = Upd(first_upd, a, <<>>)
                 /\ IF f = "btcur_close"
                      THEN Fail(a)
                      ELSE pc' = Upd(pc, a, "verbose") /\ UNCHANGED ret
    /\ IF pc'[a] = "las_err"
         THEN UNCHANGED <<cursor, total_incr, current_key>>
         ELSE LasReturn(a)
    /\ UNCHANGED <<las, las_update, las_written, oldest_id, heap, previous_state, tmp, nread,
                   upd, remv>>
    /\ UNCHANGED recvars

\* err: close the cursors, free upd and the list first_upd, return (ret)
LasErr(a) ==
    /\ pc[a] = "las_err"
    /\ heap' = FreeUpdates(heap, upd[a], first_upd[a])
    /\ upd' = Upd(upd, a, NULL)
    /\ first_upd' = Upd(first_upd, a, <<>>)
    /\ pc' = Upd(pc, a, "err")
    /\ LasReturn(a)
    /\ UNCHANGED <<ref, las, las_update, las_written, oldest_id, previous_state, ret, tmp,
                   nread, remv>>
    /\ UNCHANGED recvars

(***************************************************************************)
(* __wt_las_remove_block.                                                  *)
(***************************************************************************)
\* __wt_scr_alloc; set_key(btree_id, addr, 0, 0, empty); search_near; if
\* exact < 0, next
RemoveSearch(r) ==
    /\ rpc[r] = "rb_search"
    /\ LET found == SearchNear(las, SearchKey(ReadPrefix.id, ReadPrefix.addr))
       IN  \/ /\ rpc' = Upd(rpc, r, "done")
              /\ rret' = Upd(rret, r, "error")
              /\ UNCHANGED rcursor
           \/ /\ found = {}
              /\ rpc' = Upd(rpc, r, "done")
              /\ rret' = Upd(rret, r, "ok")
              /\ UNCHANGED rcursor
           \/ \E x \in found :
                /\ rcursor' = Upd(rcursor, r, ScanStart(las, x))
                /\ rpc' = Upd(rpc, r, IF rcursor'[r] = NoEntry THEN "done" ELSE "rb_loop")
                /\ rret' = Upd(rret, r, IF rcursor'[r] = NoEntry THEN "ok" ELSE rret[r])
    /\ UNCHANGED <<shared, readv, lasv>>
    /\ UNCHANGED recvars

\* The calls of one pass through the removal loop that can fail.
RemoveCalls == {"none", "get_key", "remove", "next"}

\* cursor->remove with overwrite=true: no error if the record is already gone.
CursorRemove(T, e) == {x \in T : LasKey(x) # LasKey(e)}

\* RemoveLoop with a cursor opened overwrite=false: the remove of a record
\* that is gone returns WT_NOTFOUND.
RemoveLoopNotFound(r) ==
    /\ rpc[r] = "rb_loop"
    /\ \E f \in RemoveCalls :
        LET e == rcursor[r]
            nxt == CursorNext(las, LasKey(e))
        IN  IF f = "get_key"
              THEN /\ rpc' = Upd(rpc, r, "done")
                   /\ rret' = Upd(rret, r, "error")
                   /\ UNCHANGED <<las, rcursor>>
            ELSE IF ~PrefixMatch(e, ReadPrefix.id, ReadPrefix.addr)
              THEN /\ rpc' = Upd(rpc, r, "done")
                   /\ rret' = Upd(rret, r, "ok")
                   /\ UNCHANGED <<las, rcursor>>
            ELSE IF f = "remove" \/ e \notin las
              THEN /\ rpc' = Upd(rpc, r, "done")
                   /\ rret' = Upd(rret, r, "error")
                   /\ UNCHANGED <<las, rcursor>>
            ELSE /\ las' = CursorRemove(las, e)
                 /\ IF f = "next"
                      THEN /\ rpc' = Upd(rpc, r, "done")
                           /\ rret' = Upd(rret, r, "error")
                           /\ UNCHANGED rcursor
                      ELSE /\ rcursor' = Upd(rcursor, r, nxt)
                           /\ rpc' = Upd(rpc, r, IF nxt = NoEntry THEN "done" ELSE "rb_loop")
                           /\ rret' = Upd(rret, r, IF nxt = NoEntry THEN "ok" ELSE rret[r])
    /\ UNCHANGED <<ref, las_update, las_written, oldest_id, heap, readv, lasv>>
    /\ UNCHANGED recvars

\* for (; ret == 0; ret = cursor->next(cursor)) { get_key; prefix test; remove }
RemoveLoop(r) ==
    /\ rpc[r] = "rb_loop"
    /\ \E f \in RemoveCalls :
        LET e == rcursor[r]
            nxt == CursorNext(las, LasKey(e))
        IN  IF f = "get_key"
              THEN /\ rpc' = Upd(rpc, r, "done")
                   /\ rret' = Upd(rret, r, "error")
                   /\ UNCHANGED <<las, rcursor>>
            ELSE IF ~PrefixMatch(e, ReadPrefix.id, ReadPrefix.addr)
              THEN /\ rpc' = Upd(rpc, r, "done")
                   /\ rret' = Upd(rret, r, "ok")
                   /\ UNCHANGED <<las, rcursor>>
            ELSE IF f = "remove"
              THEN /\ rpc' = Upd(rpc, r, "done")
                   /\ rret' = Upd(rret, r, "error")
                   /\ UNCHANGED <<las, rcursor>>
            ELSE /\ las' = CursorRemove(las, e)
                 /\ IF f = "next"
                      THEN /\ rpc' = Upd(rpc, r, "done")
                           /\ rret' = Upd(rret, r, "error")
                           /\ UNCHANGED rcursor
                      ELSE /\ rcursor' = Upd(rcursor, r, nxt)
                           /\ rpc' = Upd(rpc, r, IF nxt = NoEntry THEN "done" ELSE "rb_loop")
                           /\ rret' = Upd(rret, r, IF nxt = NoEntry THEN "ok" ELSE rret[r])
    /\ UNCHANGED <<ref, las_update, las_written, oldest_id, heap, readv, lasv>>
    /\ UNCHANGED recvars

(***************************************************************************)
(* The transaction system: the oldest running transaction id only grows.   *)
(* Only the scan of __las_page_instantiate reads it, so it is stepped      *)
(* while a scan is under way.                                              *)
(***************************************************************************)
AdvanceOldest ==
    /\ \E a \in Actors : pc[a] \in {"las_search", "las_loop"}
    /\ oldest_id + 1 \in OldestIds
    /\ oldest_id' = oldest_id + 1
    /\ UNCHANGED <<ref, las, las_update, las_written, heap, readv, lasv, remv>>
    /\ UNCHANGED recvars

(***************************************************************************)
(* Replication recovery: the oplog, the markers and the storage engine.    *)
(***************************************************************************)
\* Timestamps; Timestamp() is the null timestamp, and an OpTime is taken by
\* its timestamp.
Timestamps == 0..MaxTs
NullTimestamp == 0
isNull(t) == t = NullTimestamp

\* boost::optional<Timestamp>: boost::none, or a timestamp.
none == {}
Some(t) == {t}
Get(o) == CHOOSE t \in o : TRUE
OptionalTimestamps == {none} \cup {Some(t) : t \in Timestamps}

Min(a, b) == IF a <= b THEN a ELSE b
\* The newest entry of a non-empty oplog.
Top(log) == CHOOSE t \in log : \A u \in log : u <= t

\* The documents of a set of entries in ascending order of ts.
RECURSIVE Ascending(_)
Ascending(S) ==
    IF S = {} THEN <<>>
    ELSE LET m == CHOOSE t \in S : \A u \in S : t <= u
         IN  <<m>> \o Ascending(S \ {m})

\* The entries the reverse cursor returns, newest first.
RECURSIVE Descending(_)
Descending(S) == IF S = {} THEN <<>> ELSE <<Top(S)>> \o Descending(S \ {Top(S)})

\* The locals before a call and after a return.
NoLocals ==
    [stableTimestamp |-> none, appliedThrough |-> NullTimestamp,
     truncatePoint |-> NullTimestamp, topOfOplog |-> NullTimestamp,
     oplogApplicationStartPoint |-> NullTimestamp, oplogBuffer |-> <<>>,
     applyThroughOpTime |-> NullTimestamp, endPoint |-> NullTimestamp,
     caller |-> "none", standalone |-> FALSE]

\* No call was made yet.
NoHistory ==
    [op |-> "none", oplog |-> {},
     markers |-> [initialSyncFlag |-> FALSE, appliedThrough |-> NullTimestamp,
                  oplogTruncateAfterPoint |-> NullTimestamp,
                  minValid |-> NullTimestamp],
     storage |-> [hasOplog |-> FALSE, supportsRecoveryTimestamp |-> FALSE,
                  recoveryTimestamp |-> none, oldestTimestamp |-> NullTimestamp,
                  initialDataTimestamp |-> NullTimestamp, readOnly |-> FALSE,
                  takeUnstableCheckpointOnShutdown |-> FALSE],
     arg |-> none, applied |-> 0, effects |-> <<>>,
     previous |-> [op |-> "none", applied |-> 0]]
\* The function op is called in the present state.
Called(op) ==
    [op |-> op, oplog |-> oplog, markers |-> markers, storage |-> storage,
     arg |-> arg, applied |-> Len(applied), effects |-> <<>>,
     previous |-> [op |-> history.op, applied |-> history.applied]]
\* The call in progress has the effect e.
Effect(e) == history' = [history EXCEPT !.effects = Append(@, e)]

\* The thread goes on to the position p.
Goto(p) == rec_pc' = p /\ UNCHANGED fatal
\* invariant, fassert, LOGV2_FATAL and std::terminate: the process ends.
Abort(id) == rec_pc' = "fatal" /\ fatal' = id
\* return, with ON_BLOCK_EXIT: the flag is reset.
\* Where recoverFromOplog returns to, and the locals there: its caller, or
\* recoverFromOplogAsStandalone.
ReturnTo == IF loc.standalone THEN "standalone_finish" ELSE "idle"
ReturnLocals ==
    IF loc.standalone
      THEN [NoLocals EXCEPT !.caller = "recoverFromOplogAsStandalone", !.standalone = TRUE]
      ELSE NoLocals
ReturnKeepFlag == Goto("idle") /\ loc' = NoLocals /\ UNCHANGED inReplicationRecovery
Return ==
    /\ Goto(ReturnTo)
    /\ inReplicationRecovery' = FALSE
    /\ loc' = ReturnLocals
\* return of recoverFromOplogUpTo, which leaves the flag alone.
ReturnUpTo == Goto("idle") /\ loc' = NoLocals
\* uassert and uasserted outside a try block: the exception reaches the caller.
\* The effect is the error code of the exception.
Exceptions == {"InitialSyncActive", "BadValue", "applyOplogBatch failed"}
Throw(code) == Goto("idle") /\ loc' = NoLocals /\ Effect(code)

\* A caller calls recoverFromOplog(opCtx, stableTimestamp).
RecoverFromOplog ==
    /\ rec_pc = "idle" /\ calls < MaxCalls
    /\ calls' = calls + 1
    /\ loc' = [NoLocals EXCEPT !.stableTimestamp = arg, !.caller = "recoverFromOplog"]
    /\ history' = Called("recoverFromOplog")
    /\ Goto("initial_sync_flag")
    /\ UNCHANGED <<durable, inReplicationRecovery, applied, arg, btvars>>

\* A caller calls recoverFromOplogUpTo(opCtx, endPoint).
RecoverFromOplogUpTo ==
    /\ rec_pc = "idle" /\ calls < MaxCalls
    /\ calls' = calls + 1
    /\ \E endPoint \in Timestamps :
         loc' = [NoLocals EXCEPT !.endPoint = endPoint, !.caller = "recoverFromOplogUpTo"]
    /\ history' = Called("recoverFromOplogUpTo")
    /\ Goto("uassert_initial_sync_flag")
    /\ UNCHANGED <<durable, inReplicationRecovery, applied, arg, btvars>>

\* uassert(InitialSyncActive, !getInitialSyncFlag)
UassertInitialSyncFlag ==
    /\ rec_pc = "uassert_initial_sync_flag"
    /\ IF markers.initialSyncFlag
         THEN Throw("InitialSyncActive")
         ELSE Goto("precursor") /\ UNCHANGED <<loc, history>>
    /\ UNCHANGED <<durable, inReplicationRecovery, applied, calls, arg, btvars>>

\* recoveryTS = recoverFromOplogPrecursor(); if (!recoveryTS) fassert
RecoverFromOplogPrecursor ==
    /\ rec_pc = "precursor"
    /\ LET recoveryTS == storage.recoveryTimestamp
       IN  IF ~storage.supportsRecoveryTimestamp
             THEN Abort("fassert_50805") /\ UNCHANGED loc
           ELSE IF recoveryTS # none /\ isNull(Get(recoveryTS))
             THEN Abort("fassert_50806") /\ UNCHANGED loc
           ELSE IF recoveryTS = none THEN Abort("fassert_31399") /\ UNCHANGED loc
           ELSE /\ loc' = [loc EXCEPT !.stableTimestamp = recoveryTS]
                /\ Goto("truncate_point")
    /\ UNCHANGED <<durable, inReplicationRecovery, applied, calls, arg, history, btvars>>

\* if (getInitialSyncFlag) return; inReplicationRecovery = true
GetInitialSyncFlagIgnored ==
    /\ rec_pc = "initial_sync_flag"
    /\ Goto("recovery_timestamp") /\ inReplicationRecovery' = TRUE /\ UNCHANGED loc
    /\ UNCHANGED <<durable, applied, calls, arg, history, btvars>>
GetInitialSyncFlag ==
    /\ rec_pc = "initial_sync_flag"
    /\ IF markers.initialSyncFlag
         THEN Goto(ReturnTo) /\ loc' = ReturnLocals /\ UNCHANGED inReplicationRecovery
         ELSE Goto("recovery_timestamp") /\ inReplicationRecovery' = TRUE /\ UNCHANGED loc
    /\ UNCHANGED <<durable, applied, calls, arg, history, btvars>>

\* if (!stableTimestamp && supportsRecoveryTimestamp) stableTimestamp = getRecoveryTimestamp()
GetRecoveryTimestamp ==
    /\ rec_pc = "recovery_timestamp"
    /\ loc' = IF loc.stableTimestamp = none /\ storage.supportsRecoveryTimestamp
                THEN [loc EXCEPT !.stableTimestamp = storage.recoveryTimestamp]
                ELSE loc
    /\ Goto("applied_through")
    /\ UNCHANGED <<durable, inReplicationRecovery, applied, calls, arg, history, btvars>>

\* The invariant on the stable timestamp and appliedThrough.
StableMatchesAppliedThroughAny(st, at) == TRUE
StableMatchesAppliedThroughOrLater(st, at) ==
    st = none \/ isNull(Get(st)) \/ isNull(at) \/ Get(st) <= at
StableMatchesAppliedThrough(st, at) ==
    st = none \/ isNull(Get(st)) \/ isNull(at) \/ Get(st) = at

\* GetAppliedThrough going on to the read of the top of the oplog, with the
\* truncation left out.
GetAppliedThroughThenTop ==
    /\ rec_pc = "applied_through"
    /\ IF StableMatchesAppliedThrough(loc.stableTimestamp, markers.appliedThrough)
         THEN /\ loc' = [loc EXCEPT !.appliedThrough = markers.appliedThrough]
              /\ Goto("top_of_oplog")
         ELSE Abort("invariant_412") /\ UNCHANGED loc
    /\ UNCHANGED <<durable, inReplicationRecovery, applied, calls, arg, history, btvars>>

\* appliedThrough = getAppliedThrough(); invariant(...)
GetAppliedThrough ==
    /\ rec_pc = "applied_through"
    /\ IF StableMatchesAppliedThrough(loc.stableTimestamp, markers.appliedThrough)
         THEN /\ loc' = [loc EXCEPT !.appliedThrough = markers.appliedThrough]
              /\ Goto("truncate_point")
         ELSE Abort("invariant_412") /\ UNCHANGED loc
    /\ UNCHANGED <<durable, inReplicationRecovery, applied, calls, arg, history, btvars>>

\* cappedTruncateAfter(id, inclusive): the record id and all after it go.
CappedTruncateAfterExclusive(log, id, inclusive) == {e \in log : e <= id}
CappedTruncateAfter(log, id, inclusive) ==
    {e \in log : e < id \/ (e = id /\ ~inclusive)}

\* The loop of _truncateOplogTo over the reverse cursor: rest holds the entries
\* still to come, newest first.
RECURSIVE TruncateScan(_, _, _, _, _)
TruncateScan(log, rest, previousRecordId, count, truncateTimestamp) ==
    IF rest = <<>> THEN [found |-> FALSE, truncated |-> FALSE, oplog |-> log]
    ELSE LET id == Head(rest)
         IN  IF id <= truncateTimestamp
               THEN IF count + 1 # 1
                      THEN [found |-> TRUE, truncated |-> TRUE,
                            oplog |-> CappedTruncateAfter(log, previousRecordId, TRUE)]
                      ELSE [found |-> TRUE, truncated |-> FALSE, oplog |-> log]
               ELSE TruncateScan(log, Tail(rest), id, count + 1, truncateTimestamp)

\* Where the caller of _truncateOplogIfNeededAndThenClearOplogTruncateAfterPoint
\* goes on.
AfterTruncate ==
    IF loc.caller = "recoverFromOplogUpTo" THEN "start_point" ELSE "top_of_oplog"

\* stableTimestamp && !stableTimestamp->isNull() && truncatePoint <= stableTimestamp
NotBeforeStable(tp, st) == st # none /\ ~isNull(Get(st)) /\ tp >= Get(st)
NotAfterStable(tp, st) == st # none /\ ~isNull(Get(st)) /\ tp <= Get(st)

\* GetOplogTruncateAfterPoint going on to the clear of the truncate point,
\* past the truncation.
GetOplogTruncateAfterPointThenClear ==
    /\ rec_pc = "truncate_point"
    /\ Goto(IF isNull(markers.oplogTruncateAfterPoint)
              THEN AfterTruncate ELSE "clear_truncate_point")
    /\ UNCHANGED <<durable, inReplicationRecovery, applied, calls, arg, loc, history, btvars>>

\* truncatePoint = getOplogTruncateAfterPoint(); the stable timestamp replaces
\* a truncate point that is not after it.
GetOplogTruncateAfterPoint ==
    /\ rec_pc = "truncate_point"
    /\ LET tp == markers.oplogTruncateAfterPoint
           st == loc.stableTimestamp
       IN  IF isNull(tp) THEN Goto(AfterTruncate) /\ UNCHANGED loc
           ELSE IF NotAfterStable(tp, st)
             THEN IF storage.hasOplog
                    THEN /\ loc' = [loc EXCEPT !.truncatePoint = Get(st)]
                         /\ Goto("truncate_oplog")
                    ELSE Abort("invariant_724") /\ UNCHANGED loc
           ELSE loc' = [loc EXCEPT !.truncatePoint = tp] /\ Goto("truncate_oplog")
    /\ UNCHANGED <<durable, inReplicationRecovery, applied, calls, arg, history, btvars>>

\* _truncateOplogTo without the fassert after the loop: the end of the scan
\* is a return.
TruncateOplogToUnchecked ==
    /\ rec_pc = "truncate_oplog"
    /\ IF ~storage.hasOplog
         THEN Abort("fassert_34418") /\ UNCHANGED <<oplog, storage, history>>
       ELSE LET r == TruncateScan(oplog, Descending(oplog), NullTimestamp, 0,
                                  loc.truncatePoint)
            IN  /\ oplog' = r.oplog
                /\ Effect("_truncateOplogTo")
                /\ storage' = IF r.truncated
                                THEN [storage EXCEPT !.oldestTimestamp = Top(r.oplog)]
                                ELSE storage
                /\ Goto("clear_truncate_point")
    /\ UNCHANGED <<markers, inReplicationRecovery, applied, calls, arg, loc, btvars>>

\* _truncateOplogTo(truncatePoint); the truncation of the collection sets the
\* oldest timestamp to the truncation point.
TruncateOplogTo ==
    /\ rec_pc = "truncate_oplog"
    /\ IF ~storage.hasOplog
         THEN Abort("fassert_34418") /\ UNCHANGED <<oplog, storage, history>>
       ELSE LET r == TruncateScan(oplog, Descending(oplog), NullTimestamp, 0,
                                  loc.truncatePoint)
            IN  IF ~r.found
                  THEN Abort("fassert_40296") /\ UNCHANGED <<oplog, storage, history>>
                ELSE /\ oplog' = r.oplog
                     /\ Effect("_truncateOplogTo")
                     /\ storage' = IF r.truncated
                                     THEN [storage EXCEPT !.oldestTimestamp = Top(r.oplog)]
                                     ELSE storage
                     /\ Goto("clear_truncate_point")
    /\ UNCHANGED <<markers, inReplicationRecovery, applied, calls, arg, loc, btvars>>

\* setOplogTruncateAfterPoint(Timestamp())
ClearOplogTruncateAfterPoint ==
    /\ rec_pc = "clear_truncate_point"
    /\ markers' = [markers EXCEPT !.oplogTruncateAfterPoint = NullTimestamp]
    /\ Effect("setOplogTruncateAfterPoint")
    /\ Goto("wait_until_durable")
    /\ UNCHANGED <<oplog, storage, inReplicationRecovery, applied, calls, arg, loc, btvars>>

\* opCtx->recoveryUnit()->waitUntilDurable(opCtx)
WaitUntilDurable ==
    /\ rec_pc = "wait_until_durable"
    /\ Effect("waitUntilDurable")
    /\ Goto(AfterTruncate)
    /\ UNCHANGED <<durable, inReplicationRecovery, applied, calls, arg, loc, btvars>>

\* topOfOplogSW = _getTopOfOplog(); an empty oplog, or none: return.
GetTopOfOplogOfEmpty ==
    /\ rec_pc = "top_of_oplog"
    /\ loc' = [loc EXCEPT !.topOfOplog = IF oplog = {} THEN NullTimestamp ELSE Top(oplog)]
    /\ Goto("recover")
    /\ UNCHANGED <<durable, inReplicationRecovery, applied, calls, arg, history, btvars>>
GetTopOfOplog ==
    /\ rec_pc = "top_of_oplog"
    /\ IF ~storage.hasOplog \/ oplog = {}
         THEN Return
         ELSE /\ loc' = [loc EXCEPT !.topOfOplog = Top(oplog)]
              /\ Goto("recover")
              /\ UNCHANGED inReplicationRecovery
    /\ UNCHANGED <<durable, applied, calls, arg, history, btvars>>

\* The choice of _recoverFromStableTimestamp or _recoverFromUnstableCheckpoint,
\* up to the call of _applyToEndOfOplog or the skip of it.
RecoverReturnsOnNull ==
    /\ rec_pc = "recover"
    /\ LET st == loc.stableTimestamp
       IN  IF st # none
             THEN /\ IF ~storage.supportsRecoveryTimestamp
                       THEN Abort("invariant_433") /\ UNCHANGED loc
                     ELSE IF isNull(Get(st)) THEN Abort("invariant_449") /\ UNCHANGED loc
                     ELSE /\ loc' = [loc EXCEPT !.oplogApplicationStartPoint = Get(st)]
                          /\ Goto("apply_to_end")
                  /\ UNCHANGED inReplicationRecovery
           ELSE IF isNull(loc.appliedThrough) THEN Return
           ELSE Goto("set_oldest_timestamp") /\ UNCHANGED <<loc, inReplicationRecovery>>
    /\ UNCHANGED <<durable, applied, calls, arg, history, btvars>>
Recover ==
    /\ rec_pc = "recover"
    /\ LET st == loc.stableTimestamp
       IN  IF st # none
             THEN IF ~storage.supportsRecoveryTimestamp
                    THEN Abort("invariant_433") /\ UNCHANGED loc
                  ELSE IF isNull(Get(st)) THEN Abort("invariant_449") /\ UNCHANGED loc
                  ELSE /\ loc' = [loc EXCEPT !.oplogApplicationStartPoint = Get(st)]
                       /\ Goto("apply_to_end")
           ELSE IF isNull(loc.appliedThrough)
             THEN Goto("set_initial_data_timestamp") /\ UNCHANGED loc
           ELSE Goto("set_oldest_timestamp") /\ UNCHANGED loc
    /\ UNCHANGED <<durable, inReplicationRecovery, applied, calls, arg, history, btvars>>

\* setOldestTimestamp(appliedThrough.getTimestamp())
SetOldestTimestamp ==
    /\ rec_pc = "set_oldest_timestamp"
    /\ storage' = [storage EXCEPT !.oldestTimestamp = loc.appliedThrough]
    /\ loc' = [loc EXCEPT !.oplogApplicationStartPoint = loc.appliedThrough]
    /\ Effect("setOldestTimestamp")
    /\ Goto("apply_to_end")
    /\ UNCHANGED <<oplog, markers, inReplicationRecovery, applied, calls, arg, btvars>>

\* After _applyToEndOfOplog: the stable path returns, the unstable path goes on.
AfterApply ==
    IF loc.stableTimestamp # none
      THEN Return
      ELSE Goto("set_initial_data_timestamp") /\ UNCHANGED <<loc, inReplicationRecovery>>

\* The start point is the top of the oplog: nothing to apply.
AtTopOrBeyond(start, top) == start >= top
AtTopNever(start, top) == FALSE
AtTop(start, top) == start = top

\* _applyToEndOfOplog up to the call of _applyOplogOperations.
ApplyToEndOfOplog ==
    /\ rec_pc = "apply_to_end"
    /\ LET start == loc.oplogApplicationStartPoint
           top == loc.topOfOplog
       IN  IF isNull(start) THEN Abort("invariant_533") /\ UNCHANGED <<loc, inReplicationRecovery>>
           ELSE IF AtTop(start, top) THEN AfterApply
           ELSE IF start > top
             THEN Abort("fassert_40313") /\ UNCHANGED <<loc, inReplicationRecovery>>
           ELSE /\ loc' = [loc EXCEPT !.endPoint = top]
                /\ Goto("buffer_startup")
                /\ UNCHANGED inReplicationRecovery
    /\ UNCHANGED <<durable, applied, calls, arg, history, btvars>>

\* The documents the query of OplogBufferLocalOplog::startup returns.
OplogQueryFrom(log, start, end) == Ascending({e \in log : start <= e})
OplogQuery(log, start, end) == Ascending({e \in log : start <= e /\ e <= end})

\* OplogBufferLocalOplog::startup: the first document must be the one at the
\* start point, and is skipped.
BufferStartupKeepsFirst ==
    /\ rec_pc = "buffer_startup"
    /\ LET docs == OplogQuery(oplog, loc.oplogApplicationStartPoint, loc.endPoint)
       IN  IF docs = <<>> THEN Abort("fassert_40293") /\ UNCHANGED loc
           ELSE IF Head(docs) # loc.oplogApplicationStartPoint
             THEN Abort("fassert_40292") /\ UNCHANGED loc
           ELSE /\ loc' = [loc EXCEPT !.oplogBuffer = docs,
                                      !.applyThroughOpTime = NullTimestamp]
                /\ Goto("apply_batch")
    /\ UNCHANGED <<durable, inReplicationRecovery, applied, calls, arg, history, btvars>>
BufferStartupUnchecked ==
    /\ rec_pc = "buffer_startup"
    /\ LET docs == OplogQuery(oplog, loc.oplogApplicationStartPoint, loc.endPoint)
       IN  /\ loc' = [loc EXCEPT !.oplogBuffer = IF docs = <<>> THEN <<>> ELSE Tail(docs),
                                 !.applyThroughOpTime = NullTimestamp]
           /\ Goto("apply_batch")
    /\ UNCHANGED <<durable, inReplicationRecovery, applied, calls, arg, history, btvars>>
BufferStartup ==
    /\ rec_pc = "buffer_startup"
    /\ LET docs == OplogQuery(oplog, loc.oplogApplicationStartPoint, loc.endPoint)
       IN  IF docs = <<>> THEN Abort("fassert_40293") /\ UNCHANGED loc
           ELSE IF Head(docs) # loc.oplogApplicationStartPoint
             THEN Abort("fassert_40292") /\ UNCHANGED loc
           ELSE /\ loc' = [loc EXCEPT !.oplogBuffer = Tail(docs),
                                      !.applyThroughOpTime = NullTimestamp]
                /\ Goto("apply_batch")
    /\ UNCHANGED <<durable, inReplicationRecovery, applied, calls, arg, history, btvars>>

\* One pass of the loop of _applyOplogOperations: the next batch, of up to
\* MaxBatchOps operations, is applied, or the application throws and the
\* catch of recoverFromOplog ends the process.
ApplyBatchFirstOpTime ==
    /\ rec_pc = "apply_batch"
    /\ IF loc.oplogBuffer = <<>>
         THEN Goto("apply_done") /\ UNCHANGED <<loc, applied, history>>
         ELSE \E n \in 1..Min(Len(loc.oplogBuffer), MaxBatchOps), ok \in BOOLEAN :
                LET batch == SubSeq(loc.oplogBuffer, 1, n)
                IN  IF ok
                      THEN /\ applied' = applied \o batch
                           /\ loc' = [loc EXCEPT
                                 !.oplogBuffer = SubSeq(@, n + 1, Len(@)),
                                 !.applyThroughOpTime = batch[1]]
                           /\ Effect("applyOplogBatch")
                           /\ Goto("apply_batch")
                    ELSE IF loc.caller = "recoverFromOplogUpTo"
                      THEN Throw("applyOplogBatch failed") /\ UNCHANGED applied
                    ELSE Abort("fatal_21570") /\ UNCHANGED <<loc, applied, history>>
    /\ UNCHANGED <<durable, inReplicationRecovery, calls, arg, btvars>>
ApplyBatch ==
    /\ rec_pc = "apply_batch"
    /\ IF loc.oplogBuffer = <<>>
         THEN Goto("apply_done") /\ UNCHANGED <<loc, applied, history>>
         ELSE \E n \in 1..Min(Len(loc.oplogBuffer), MaxBatchOps), ok \in BOOLEAN :
                LET batch == SubSeq(loc.oplogBuffer, 1, n)
                IN  IF ok
                      THEN /\ applied' = applied \o batch
                           /\ loc' = [loc EXCEPT
                                 !.oplogBuffer = SubSeq(@, n + 1, Len(@)),
                                 !.applyThroughOpTime = batch[n]]
                           /\ Effect("applyOplogBatch")
                           /\ Goto("apply_batch")
                    ELSE IF loc.caller = "recoverFromOplogUpTo"
                      THEN Throw("applyOplogBatch failed") /\ UNCHANGED applied
                    ELSE Abort("fatal_21570") /\ UNCHANGED <<loc, applied, history>>
    /\ UNCHANGED <<durable, inReplicationRecovery, calls, arg, btvars>>

\* The end of _applyOplogOperations and of _applyToEndOfOplog: appliedThrough
\* is set to the optime of the last batch, which must be the top of the oplog.
ApplyDone ==
    /\ rec_pc = "apply_done"
    /\ IF loc.oplogBuffer # <<>>
         THEN /\ Abort("invariant_593")
              /\ UNCHANGED <<markers, loc, inReplicationRecovery, history>>
       ELSE IF isNull(loc.applyThroughOpTime)
         THEN /\ IF loc.caller = "recoverFromOplogUpTo"
                   THEN Goto("reconstruct_prepared_transactions")
                   ELSE Abort("invariant_552")
              /\ UNCHANGED <<markers, loc, inReplicationRecovery, history>>
       ELSE /\ markers' = [markers EXCEPT !.appliedThrough = loc.applyThroughOpTime]
            /\ Effect("setAppliedThrough")
            /\ IF loc.caller = "recoverFromOplogUpTo"
                 THEN /\ IF loc.applyThroughOpTime <= loc.endPoint
                           THEN Goto("reconstruct_prepared_transactions")
                           ELSE Abort("invariant_377")
                      /\ UNCHANGED <<loc, inReplicationRecovery>>
               ELSE IF loc.applyThroughOpTime = loc.topOfOplog
                 THEN AfterApply
                 ELSE Abort("invariant_553") /\ UNCHANGED <<loc, inReplicationRecovery>>
    /\ UNCHANGED <<oplog, storage, applied, calls, arg, btvars>>

\* setInitialDataTimestamp(topOfOplog.getTimestamp())
SetInitialDataTimestamp ==
    /\ rec_pc = "set_initial_data_timestamp"
    /\ storage' = [storage EXCEPT !.initialDataTimestamp = loc.topOfOplog]
    /\ Effect("setInitialDataTimestamp")
    /\ Goto("set_applied_through")
    /\ UNCHANGED <<oplog, markers, inReplicationRecovery, applied, calls, arg, loc, btvars>>

\* setAppliedThrough(topOfOplog)
SetAppliedThroughAndReturn ==
    /\ rec_pc = "set_applied_through"
    /\ markers' = [markers EXCEPT !.appliedThrough = loc.topOfOplog]
    /\ Effect("setAppliedThrough")
    /\ Return
    /\ UNCHANGED <<oplog, storage, applied, calls, arg, btvars>>
SetAppliedThrough ==
    /\ rec_pc = "set_applied_through"
    /\ markers' = [markers EXCEPT !.appliedThrough = loc.topOfOplog]
    /\ Effect("setAppliedThrough")
    /\ Goto("wait_unjournaled")
    /\ UNCHANGED <<oplog, storage, inReplicationRecovery, applied, calls, arg, loc, btvars>>

\* waitUntilUnjournaledWritesDurable(), and the return of recoverFromOplog.
WaitUntilUnjournaledWritesDurable ==
    /\ rec_pc = "wait_unjournaled"
    /\ Effect("waitUntilUnjournaledWritesDurable")
    /\ Return
    /\ UNCHANGED <<durable, applied, calls, arg, btvars>>

\* startPoint = getAppliedThrough(); the checks of recoverFromOplogUpTo before
\* the call of _applyOplogOperations(startPoint, endPoint).
GetStartPointUnchecked ==
    /\ rec_pc = "start_point"
    /\ LET startPoint == markers.appliedThrough
           endPoint == loc.endPoint
       IN  IF isNull(startPoint) THEN ReturnUpTo
           ELSE IF isNull(endPoint) THEN Abort("invariant_353") /\ UNCHANGED loc
           ELSE /\ loc' = [loc EXCEPT !.oplogApplicationStartPoint = startPoint]
                /\ Goto("buffer_startup")
    /\ UNCHANGED <<durable, inReplicationRecovery, applied, calls, arg, history, btvars>>
GetStartPoint ==
    /\ rec_pc = "start_point"
    /\ LET startPoint == markers.appliedThrough
           endPoint == loc.endPoint
       IN  IF isNull(startPoint) THEN ReturnUpTo /\ UNCHANGED history
           ELSE IF isNull(endPoint)
             THEN Abort("invariant_353") /\ UNCHANGED <<loc, history>>
           ELSE IF startPoint = endPoint THEN ReturnUpTo /\ UNCHANGED history
           ELSE IF startPoint > endPoint THEN Throw("BadValue")
           ELSE /\ loc' = [loc EXCEPT !.oplogApplicationStartPoint = startPoint]
                /\ Goto("buffer_startup")
                /\ UNCHANGED history
    /\ UNCHANGED <<durable, inReplicationRecovery, applied, calls, arg, btvars>>

\* reconstructPreparedTransactions(), and the return of recoverFromOplogUpTo.
ReconstructPreparedTransactions ==
    /\ rec_pc = "reconstruct_prepared_transactions"
    /\ Effect("reconstructPreparedTransactions")
    /\ ReturnUpTo
    /\ UNCHANGED <<durable, inReplicationRecovery, applied, calls, arg, btvars>>

\* A caller calls recoverFromOplogAsStandalone(opCtx).
RecoverFromOplogAsStandalone ==
    /\ rec_pc = "idle" /\ calls < MaxCalls
    /\ calls' = calls + 1
    /\ loc' = [NoLocals EXCEPT !.caller = "recoverFromOplogAsStandalone",
                               !.standalone = TRUE]
    /\ history' = Called("recoverFromOplogAsStandalone")
    /\ Goto("standalone_precursor")
    /\ UNCHANGED <<durable, inReplicationRecovery, applied, arg, btvars>>

\* recoveryTS = recoverFromOplogPrecursor(); with a recovery timestamp,
\* recoverFromOplog(opCtx, boost::none) is called; without one, the server
\* parameter decides.
StandalonePrecursor ==
    /\ rec_pc = "standalone_precursor"
    /\ LET recoveryTS == storage.recoveryTimestamp
       IN  IF ~storage.supportsRecoveryTimestamp
             THEN Abort("fassert_50805") /\ UNCHANGED loc
           ELSE IF recoveryTS # none /\ isNull(Get(recoveryTS))
             THEN Abort("fassert_50806") /\ UNCHANGED loc
           ELSE IF recoveryTS # none
             THEN /\ loc' = [loc EXCEPT !.caller = "recoverFromOplog",
                                        !.stableTimestamp = none]
                  /\ Goto("initial_sync_flag")
           ELSE IF storage.takeUnstableCheckpointOnShutdown
             THEN Goto("assert_no_recovery_needed") /\ UNCHANGED loc
           ELSE Abort("fassert_31229") /\ UNCHANGED loc
    /\ UNCHANGED <<durable, inReplicationRecovery, applied, calls, arg, history, btvars>>

\* _assertNoRecoveryNeededOnUnstableCheckpoint
AssertNoRecoveryNeededIgnoringMinValid ==
    /\ rec_pc = "assert_no_recovery_needed"
    /\ IF markers.initialSyncFlag THEN Abort("fassert_31362")
       ELSE IF ~isNull(markers.oplogTruncateAfterPoint) THEN Abort("fassert_31363")
       ELSE IF ~storage.hasOplog \/ oplog = {} THEN Abort("fassert_31364")
       ELSE IF ~isNull(markers.appliedThrough) /\ markers.appliedThrough # Top(oplog)
         THEN Abort("fassert_31365")
       ELSE Goto("standalone_finish")
    /\ UNCHANGED <<durable, inReplicationRecovery, applied, calls, arg, loc, history,
                   btvars>>
AssertNoRecoveryNeededOnUnstableCheckpoint ==
    /\ rec_pc = "assert_no_recovery_needed"
    /\ IF ~storage.supportsRecoveryTimestamp THEN Abort("invariant_249")
       ELSE IF storage.recoveryTimestamp # none THEN Abort("invariant_250")
       ELSE IF markers.initialSyncFlag THEN Abort("fassert_31362")
       ELSE IF ~isNull(markers.oplogTruncateAfterPoint) THEN Abort("fassert_31363")
       ELSE IF ~storage.hasOplog \/ oplog = {} THEN Abort("fassert_31364")
       ELSE IF ~isNull(markers.appliedThrough) /\ markers.appliedThrough # Top(oplog)
         THEN Abort("fassert_31365")
       ELSE IF markers.minValid > Top(oplog) THEN Abort("fassert_31366")
       ELSE Goto("standalone_finish")
    /\ UNCHANGED <<durable, inReplicationRecovery, applied, calls, arg, loc, history,
                   btvars>>

\* reconstructPreparedTransactions(); storageGlobalParams.readOnly = true; and
\* the return of recoverFromOplogAsStandalone.
StandaloneFinish ==
    /\ rec_pc = "standalone_finish"
    /\ Effect("reconstructPreparedTransactions")
    /\ storage' = [storage EXCEPT !.readOnly = TRUE]
    /\ Goto("idle") /\ loc' = NoLocals
    /\ UNCHANGED <<oplog, markers, inReplicationRecovery, applied, calls, arg, btvars>>

\* No call of recoverFromOplog: the state of the page-read specifications.
RecIdle ==
    /\ oplog = {}
    /\ markers = NoHistory.markers
    /\ storage = NoHistory.storage
    /\ inReplicationRecovery = FALSE
    /\ applied = <<>>
    /\ calls = MaxCalls
    /\ rec_pc = "idle"
    /\ fatal = "none"
    /\ arg = none
    /\ loc = NoLocals
    /\ history = NoHistory

\* The process at startup or before a rollback: any oplog, any markers, a
\* storage engine with or without a recovery timestamp.
RecInitWith(minValids, modes, args) ==
    /\ storage \in [hasOplog : BOOLEAN, supportsRecoveryTimestamp : BOOLEAN,
                    recoveryTimestamp : OptionalTimestamps,
                    oldestTimestamp : {NullTimestamp},
                    initialDataTimestamp : {NullTimestamp},
                    readOnly : {FALSE},
                    takeUnstableCheckpointOnShutdown : modes]
    /\ storage.supportsRecoveryTimestamp \/ storage.recoveryTimestamp = none
    /\ oplog \in IF storage.hasOplog THEN SUBSET (1..MaxTs) ELSE {{}}
    /\ markers \in [initialSyncFlag : BOOLEAN, appliedThrough : Timestamps,
                    oplogTruncateAfterPoint : Timestamps, minValid : minValids]
    /\ inReplicationRecovery = FALSE
    /\ applied = <<>>
    /\ calls = 0
    /\ rec_pc = "idle"
    /\ fatal = "none"
    /\ arg \in args
    /\ loc = NoLocals
    /\ history = NoHistory
\* Calls of recoverFromOplog and recoverFromOplogUpTo: minValid and the
\* server parameter, which they do not read, are fixed.
RecInit == RecInitWith({NullTimestamp}, {FALSE}, OptionalTimestamps)

Recovery ==
    \/ RecoverFromOplog \/ GetInitialSyncFlag \/ GetRecoveryTimestamp \/ GetAppliedThrough
    \/ GetOplogTruncateAfterPoint \/ TruncateOplogTo \/ ClearOplogTruncateAfterPoint
    \/ WaitUntilDurable \/ GetTopOfOplog \/ Recover \/ SetOldestTimestamp
    \/ ApplyToEndOfOplog \/ BufferStartup \/ ApplyBatch \/ ApplyDone
    \/ SetInitialDataTimestamp \/ SetAppliedThrough \/ WaitUntilUnjournaledWritesDurable
    \/ RecoverFromOplogUpTo \/ UassertInitialSyncFlag \/ RecoverFromOplogPrecursor
    \/ GetStartPoint \/ ReconstructPreparedTransactions

\* The process ends at any position, by a fault or by one of its own
\* assertions, and starts again.  The writes reach the disk in the order
\* they were made, so the disk holds the state of some moment between the
\* last flush and the crash; a crash at that moment leaves the same disk, and
\* so the crash keeps the oplog, the markers and the storage as they are.
\* The locals and the flag are lost; startup passes no stable timestamp.
Crash ==
    /\ rec_pc # "idle" /\ calls < MaxCalls
    /\ rec_pc' = "idle" /\ fatal' = "none"
    /\ loc' = NoLocals
    /\ inReplicationRecovery' = FALSE
    /\ arg' = none
    /\ UNCHANGED <<durable, applied, calls, history, btvars>>

(***************************************************************************)
(* Specifications of the page read.                                        *)
(***************************************************************************)
\* A ref on disk, a deleted ref with and without an address, a ref in memory
\* and a ref of a page that was split.
RefDisk == [state |-> WT_REF_DISK, page |-> NULL, has_addr |-> TRUE]
RefDeleted == [state |-> WT_REF_DELETED, page |-> NULL, has_addr |-> TRUE]
RefDeletedNoAddr == [state |-> WT_REF_DELETED, page |-> NULL, has_addr |-> FALSE]
RefMem == [state |-> WT_REF_MEM, page |-> NewPage("WT_PAGE_ROW_LEAF"), has_addr |-> TRUE]
RefSplit == [state |-> WT_REF_SPLIT, page |-> NULL, has_addr |-> TRUE]

\* The state before any call: the sessions of readers call __wt_cache_read on
\* a ref of refs, the callers of removers call __wt_las_remove_block, the
\* lookaside table is one of tables.
BtInit(readers, removers, refs, tables) ==
    /\ ref \in refs
    /\ las_written \in BOOLEAN
    /\ las \in IF las_written THEN tables ELSE {{}}
    /\ las_update \in BOOLEAN
    /\ oldest_id = 1
    /\ heap = {}
    /\ pc = [a \in Actors |-> IF a \in readers THEN "cas_disk" ELSE "idle"]
    /\ previous_state = [a \in Actors |-> "none"]
    /\ ret = [a \in Actors |-> "none"]
    /\ tmp = [a \in Actors |-> "clear"]
    /\ nread = [a \in Actors |-> 0]
    /\ cursor = [a \in Actors |-> NoEntry]
    /\ first_upd = [a \in Actors |-> <<>>]
    /\ upd = [a \in Actors |-> NULL]
    /\ total_incr = [a \in Actors |-> 0]
    /\ current_key = [a \in Actors |-> 0]
    /\ rpc = [r \in Removers |-> IF r \in removers THEN "rb_search" ELSE "idle"]
    /\ rcursor = [r \in Removers |-> NoEntry]
    /\ rret = [r \in Removers |-> "none"]

CacheRead(a) ==
    \/ CasDisk(a) \/ CasDeleted(a) \/ RefInfo(a) \/ NewLeafPage(a) \/ BtRead(a)
    \/ PageInmem(a) \/ DeletePageInstantiate(a) \/ LasCheck(a)
    \/ LasOpen(a) \/ LasSearch(a) \/ LasLoop(a) \/ LasFinish(a) \/ LasErr(a)
    \/ Verbose(a) \/ PublishMem(a) \/ Err(a)

LasRemoveBlock(r) == RemoveSearch(r) \/ RemoveLoop(r)

vars == <<btvars, recvars>>

\* Concurrent faults of one ref; the table holds some of three entries: two of
\* one key of the block, one of another block.
RaceTables ==
    SUBSET { LasEntry(1, <<1>>, 1, 1, 1, [upd_txnid |-> 2, upd_size |-> 1]),
             LasEntry(1, <<1>>, 2, 1, 1, [upd_txnid |-> 1, upd_size |-> WT_UPDATE_DELETED_VALUE]),
             LasEntry(1, <<2>>, 1, 1, 1, [upd_txnid |-> 2, upd_size |-> 1]) }
Init ==
    /\ BtInit(Actors, {}, {RefDisk, RefDeleted, RefDeletedNoAddr, RefMem, RefSplit}, RaceTables)
    /\ RecIdle
Next == (\E a \in Actors : CacheRead(a)) \/ AdvanceOldest
Spec == Init /\ [][Next]_vars

\* The concurrent faults of a ref that a compare-and-swap can win, the
\* lookaside table in use, with every call a session makes returning in the
\* end: no session stops for ever at a position it can leave.
InitLive ==
    /\ BtInit(Actors, {}, {RefDisk, RefDeleted, RefDeletedNoAddr}, RaceTables)
    /\ las_written /\ las_update
    /\ RecIdle
SpecLive == InitLive /\ [][Next]_vars /\ \A a \in Actors : WF_vars(CacheRead(a))

\* One fault of a ref, or one removal, over the tables of up to MaxLas
\* entries (one entry less for the fault of a deleted ref with an address,
\* whose scan is that of a ref on disk).
InitLas ==
    /\ \/ BtInit({1}, {}, {RefDisk, RefDeletedNoAddr}, LasTables(MaxLas))
       \/ BtInit({1}, {}, {RefDeleted}, LasTables(MaxLas - 1))
       \/ BtInit({}, {1}, {RefDisk}, LasTables(MaxLas))
    /\ RecIdle
NextLas == (\E a \in Actors : CacheRead(a)) \/ (\E r \in Removers : LasRemoveBlock(r))
              \/ AdvanceOldest
SpecLas == InitLas /\ [][NextLas]_vars

\* The tables of up to n entries, each the first update of its transaction
\* to a key of the block or the entry of the block with the longer address.
BlockTables(n) ==
    { T \in LasTables(n) :
        \A e \in T : e.counter = 1 /\ e.id = ReadPrefix.id /\ e.addr \in {<<1>>, <<1, 1>>} }
\* A fault of a ref on disk with a removal of the entries of its block at
\* the same time, or two such removals at the same time; the header of the
\* block says it has entries in the table.
InitRace ==
    /\ \/ BtInit({1}, {1}, {RefDisk}, BlockTables(MaxLas))
       \/ BtInit({}, Removers, {RefDisk}, BlockTables(MaxLas))
    /\ las_written /\ las_update
    /\ RecIdle
NextRace ==
    \/ \E a \in Actors :
         \/ CasDisk(a) \/ RefInfo(a) \/ BtRead(a) \/ PageInmem(a) \/ LasCheck(a)
         \/ LasOpen(a) \/ LasSearch(a) \/ LasLoop(a) \/ LasFinish(a) \/ LasErr(a)
         \/ Verbose(a) \/ PublishMem(a) \/ Err(a)
    \/ \E r \in Removers : LasRemoveBlock(r)
    \/ AdvanceOldest
SpecRace == InitRace /\ [][NextRace]_vars

\* Calls of recoverFromOplog, one after the other, on one thread; no page is
\* read meanwhile.
InitRecovery ==
    /\ BtInit({}, {}, {RefMem}, {{}})
    /\ las_written = FALSE /\ las_update = FALSE
    /\ RecInit
NextRecovery == Recovery
SpecRecovery == InitRecovery /\ [][NextRecovery]_vars

\* Calls of recoverFromOplogAsStandalone, with the call of recoverFromOplog
\* it makes, on any minValid and either value of the server parameter.
InitStandalone ==
    /\ BtInit({}, {}, {RefMem}, {{}})
    /\ las_written = FALSE /\ las_update = FALSE
    /\ RecInitWith(Timestamps, BOOLEAN, {none})
NextStandalone ==
    \/ RecoverFromOplogAsStandalone \/ StandalonePrecursor
    \/ AssertNoRecoveryNeededOnUnstableCheckpoint \/ StandaloneFinish
    \/ GetInitialSyncFlag \/ GetRecoveryTimestamp \/ GetAppliedThrough
    \/ GetOplogTruncateAfterPoint \/ TruncateOplogTo \/ ClearOplogTruncateAfterPoint
    \/ WaitUntilDurable \/ GetTopOfOplog \/ Recover
    \/ ApplyToEndOfOplog \/ BufferStartup \/ ApplyBatch \/ ApplyDone
SpecStandalone == InitStandalone /\ [][NextStandalone]_vars

\* Calls of recoverFromOplog at startup and before a rollback, with a crash
\* of the process at any position and the call of the next startup.
NextCrash ==
    \/ RecoverFromOplog \/ GetInitialSyncFlag \/ GetRecoveryTimestamp \/ GetAppliedThrough
    \/ GetOplogTruncateAfterPoint \/ TruncateOplogTo \/ ClearOplogTruncateAfterPoint
    \/ WaitUntilDurable \/ GetTopOfOplog \/ Recover \/ SetOldestTimestamp
    \/ ApplyToEndOfOplog \/ BufferStartup \/ ApplyBatch \/ ApplyDone
    \/ SetInitialDataTimestamp \/ SetAppliedThrough \/ WaitUntilUnjournaledWritesDurable
    \/ Crash
SpecCrash == InitRecovery /\ [][NextCrash]_vars

(***************************************************************************)
(* Properties of the page read.                                            *)
(***************************************************************************)
\* The session is between a successful CAS and its store of WT_REF_MEM or of
\* the previous state.
Winner(a) == pc[a] \notin {"idle", "cas_disk", "cas_deleted", "done"}
\* The session went through __wt_cache_read without winning a CAS.
Loser(a) == pc[a] = "done" /\ previous_state[a] = "none"
AllDone == \A a \in Actors : pc[a] \in {"idle", "done"}
Readers == {a \in Actors : nread[a] > 0}
\* The calls started on a ref in state WT_REF_DISK: only then does any session
\* win the first CAS.
StartedOnDisk == \E a \in Actors : previous_state[a] = WT_REF_DISK

\* C1: at any moment at most one session is between a successful CAS and its
\* store of WT_REF_MEM or of the previous state, and while one is, the ref is
\* WT_REF_READING or WT_REF_LOCKED.
C1_SingleWinner ==
    /\ \A a, b \in Actors : (Winner(a) /\ Winner(b)) => a = b
    /\ \A a \in Actors : Winner(a) => ref.state \in {WT_REF_READING, WT_REF_LOCKED}
\* A session has lost both CASes and returned while another holds the ref.
C1_Witness ==
    \E a, b \in Actors : a # b /\ Winner(a) /\ Loser(b) /\ ref.state = WT_REF_READING

\* C2: after concurrent calls on a ref in WT_REF_DISK, a session that lost
\* both CASes has returned success without reading a block; and, no call
\* having failed, exactly one session has read the block, once, and the ref
\* is WT_REF_MEM with a page.
C2_RaceOnDisk ==
    (AllDone /\ StartedOnDisk) =>
        /\ \A a \in Actors : Loser(a) => (ret[a] = "ok" /\ nread[a] = 0)
        /\ (\A a \in Actors : ret[a] = "ok") =>
              /\ Cardinality(Readers) = 1
              /\ \A a \in Actors : nread[a] <= 1
              /\ ref.state = WT_REF_MEM /\ ref.page # NULL
\* Every call returned success after a race on a ref in WT_REF_DISK.
C2_Witness ==
    /\ AllDone /\ StartedOnDisk
    /\ \A a \in Actors : ret[a] = "ok"
    /\ \E a \in Actors : Loser(a)
    /\ ref.state = WT_REF_MEM

\* C3 as stated: a call returns success with the ref WT_REF_MEM and a page on
\* it, or an error with the ref in the state it had before.
C3_Original ==
    [][\A a \in Actors :
        (pc[a] # "done" /\ pc'[a] = "done") =>
            \/ ret'[a] = "ok" /\ ref'.state = WT_REF_MEM /\ ref'.page # NULL
            \/ ret'[a] = "error" /\ ref'.state = previous_state[a]]_vars
\* C3 as amended: a call that won a CAS returns success with the ref
\* WT_REF_MEM and a page on it, or an error with the ref in the state the CAS
\* found and no page on it; a call that lost both CASes returns success and
\* leaves the ref as it is, in whatever state.
C3_Outcomes ==
    [][\A a \in Actors :
        (pc[a] # "done" /\ pc'[a] = "done") =>
            \/ /\ previous_state[a] # "none" /\ ret'[a] = "ok"
               /\ ref'.state = WT_REF_MEM /\ ref'.page # NULL
            \/ /\ previous_state[a] # "none" /\ ret'[a] = "error"
               /\ ref'.state = previous_state[a] /\ ref'.page = NULL
            \/ /\ previous_state[a] = "none" /\ ret'[a] = "ok"
               /\ ref' = ref]_vars
\* One call failed and restored WT_REF_DELETED, another lost and returned
\* success while the ref was locked.
C3_Witness ==
    \E a, b \in Actors :
        /\ pc[a] = "done" /\ ret[a] = "error" /\ previous_state[a] = WT_REF_DELETED
        /\ ref.state = WT_REF_DELETED /\ ref.page = NULL
        /\ Loser(b) /\ ret[b] = "ok"

\* No other session has won a CAS on the ref.
OnlyWinner(a) == \A b \in Actors \ {a} : previous_state[b] = "none"
\* C4: after a call that won a CAS returned an error, no WT_UPDATE allocated
\* by the call is left, and the ref, until another session wins a CAS on it,
\* is in the state the CAS found and has no page.
C4_Rollback ==
    \A a \in Actors :
        (pc[a] = "done" /\ ret[a] = "error") =>
            /\ previous_state[a] \in {WT_REF_DISK, WT_REF_DELETED}
            /\ {u \in heap : u.by = a} = {}
            /\ OnlyWinner(a) => (ref.state = previous_state[a] /\ ref.page = NULL)
\* A read of a deleted page failed after the block was read.
C4_Witness ==
    \E a \in Actors :
        /\ pc[a] = "done" /\ ret[a] = "error" /\ previous_state[a] = WT_REF_DELETED
        /\ nread[a] = 1 /\ las_update /\ las # {}
        /\ ref.state = WT_REF_DELETED /\ ref.page = NULL /\ heap = {}

\* The transitions of ref.state that a read makes.
ReadTransitions ==
    { <<WT_REF_DISK, WT_REF_READING>>, <<WT_REF_READING, WT_REF_MEM>>,
      <<WT_REF_READING, WT_REF_DISK>>, <<WT_REF_DELETED, WT_REF_LOCKED>>,
      <<WT_REF_LOCKED, WT_REF_MEM>>, <<WT_REF_LOCKED, WT_REF_DELETED>> }
\* C5: every change of ref.state is one of the six transitions, and a session
\* that meets the ref in a state other than WT_REF_DISK and WT_REF_DELETED
\* leaves the ref as it is.
C5_Transitions ==
    [][/\ ref'.state # ref.state => <<ref.state, ref'.state>> \in ReadTransitions
       /\ \A a \in Actors :
            (pc[a] \in {"cas_disk", "cas_deleted"} /\ pc'[a] # pc[a]
                /\ ref.state \notin {WT_REF_DISK, WT_REF_DELETED}) => ref' = ref]_vars
\* A read of a deleted page failed and restored WT_REF_DELETED, and a later
\* read locked the ref and published the page.
C5_Witness ==
    \E a, b \in Actors :
        /\ pc[a] = "done" /\ ret[a] = "error" /\ previous_state[a] = WT_REF_DELETED
        /\ pc[b] = "done" /\ ret[b] = "ok" /\ previous_state[b] = WT_REF_DELETED
        /\ ref.state = WT_REF_MEM

\* C6: the page of the ref changes only while the ref is WT_REF_READING or
\* WT_REF_LOCKED, and while the ref is WT_REF_MEM no session holds an update
\* or a list that is still to be attached.
C6_NoPartialPage ==
    /\ [][ref'.page # ref.page => ref.state \in {WT_REF_READING, WT_REF_LOCKED}]_vars
    /\ [](ref.state = WT_REF_MEM =>
            \A a \in Actors : ~Winner(a) /\ upd[a] = NULL /\ first_upd[a] = <<>>)
\* A page with lookaside updates on it has been published.
C6_Witness == ref.state = WT_REF_MEM /\ PageUpdates(ref.page) # {}

(***************************************************************************)
(* Properties of the lookaside scans.                                      *)
(***************************************************************************)
\* The entry belongs to the block (t, a): same tree, same address.
OfBlock(e, t, a) == e.id = t /\ e.addr = a
\* The update lists that exist: on the page, and under construction.
Lists ==
    {first_upd[a] : a \in Actors}
        \cup (IF ref.page = NULL THEN {} ELSE {ref.page.upd[k] : k \in UserKeys})
\* The entries the updates of the page were built from.
PageSources == {u.src : u \in PageUpdates(ref.page)}

\* C7 as stated: no WT_UPDATE is built, and so none is attached, whose own
\* transaction id is visible to all when its entry is examined.
C7_Original == [][\A u \in heap' \ heap : ~VisibleAll(u.txnid)]_vars
\* C7 as amended: no WT_UPDATE is built, and so none is attached, from an
\* entry whose key transaction id (las_txnid) is visible to all when the entry
\* is examined; the updates on lists are the ones the scan built.
C7_VisibilityFilter ==
    /\ [][\A u \in heap' \ heap : ~VisibleAll(u.src.txnid)]_vars
    /\ [](\A l \in Lists : \A i \in 1..Len(l) : l[i] \in heap)
\* A page is published with updates on it, and an entry of the block whose
\* transaction id is visible is not among their sources.
C7_Witness ==
    /\ ref.state = WT_REF_MEM /\ PageUpdates(ref.page) # {}
    /\ \E e \in las :
        /\ OfBlock(e, ReadPrefix.id, ReadPrefix.addr)
        /\ VisibleAll(e.txnid) /\ e \notin PageSources

\* C8: in every update list the updates are in the order of the scan,
\* ascending (txnid, counter) of their entries, and are of one user key.
C8_ChainOrder ==
    \A l \in Lists : \A i, j \in 1..Len(l) :
        i < j =>
            /\ \/ l[i].src.txnid < l[j].src.txnid
               \/ l[i].src.txnid = l[j].src.txnid /\ l[i].src.counter < l[j].src.counter
            /\ l[i].src.key = l[j].src.key
\* A list of two updates is on a published page, the head from the entry with
\* the smaller transaction id.
C8_Witness ==
    /\ ref.state = WT_REF_MEM
    /\ \E k \in UserKeys :
        /\ Len(ref.page.upd[k]) >= 2
        /\ ref.page.upd[k][1].src.txnid < ref.page.upd[k][2].src.txnid

\* The entries of the table from the search key of the block up to the entry e.
Scanned(e) ==
    {x \in las : /\ KeyLess(SearchKey(ReadPrefix.id, ReadPrefix.addr), LasKey(x))
                 /\ KeyLess(LasKey(x), LasKey(e))}
\* C9: updates are built only from entries of the block; only entries of the
\* block are removed, and all of them once __wt_las_remove_block has returned
\* success; and neither scan steps past the first entry of another block.
C9_PrefixScan ==
    /\ [](\A u \in heap : OfBlock(u.src, ReadPrefix.id, ReadPrefix.addr))
    /\ [][\A e \in las \ las' : OfBlock(e, ReadPrefix.id, ReadPrefix.addr)]_vars
    /\ [](\A r \in Removers :
            (rpc[r] = "done" /\ rret[r] = "ok") =>
                \A e \in las : ~OfBlock(e, ReadPrefix.id, ReadPrefix.addr))
    /\ [](\A a \in Actors : cursor[a] # NoEntry =>
            \A x \in Scanned(cursor[a]) : OfBlock(x, ReadPrefix.id, ReadPrefix.addr))
    /\ [](\A r \in Removers : rcursor[r] # NoEntry =>
            \A x \in Scanned(rcursor[r]) : OfBlock(x, ReadPrefix.id, ReadPrefix.addr))
\* A page is published with updates on it while the table holds, right after
\* the entries of the block, an entry with a longer address that starts with
\* the same bytes.
C9_Witness ==
    /\ ref.state = WT_REF_MEM /\ PageUpdates(ref.page) # {}
    /\ \E e \in las : e.id = ReadPrefix.id /\ e.addr = <<1, 1>>
    /\ \A e \in las : e.addr # <<2>>

(***************************************************************************)
(* Properties of replication recovery.                                     *)
(***************************************************************************)
\* A step leaves the oplog, the applied operations, the consistency markers
\* and the recovery timestamp as they are.
NoEffect ==
    /\ oplog' = oplog
    /\ applied' = applied
    /\ markers' = markers
    /\ storage'.recoveryTimestamp = storage.recoveryTimestamp

\* A call of recoverFromOplog follows another; the call before it applied
\* operations.
Again ==
    /\ calls >= 2
    /\ history.op = "recoverFromOplog" /\ history.previous.op = "recoverFromOplog"
PreviousApplied == history.applied > history.previous.applied

\* C10 as stated: a call of recoverFromOplog that follows another, with the
\* same argument and no write between the two, does not end the process, and
\* no step of it applies an operation, truncates the oplog or changes a marker.
C10_Original ==
    /\ [](Again => rec_pc # "fatal")
    /\ [][Again => NoEffect]_vars
\* C10 as amended: no step of such a call applies an operation, truncates the
\* oplog or changes the value of a marker or of the initial data timestamp;
\* the call returns, unless the call before it applied operations from a
\* stable timestamp: appliedThrough is then the top of the oplog and not the
\* stable timestamp, and the call ends the process at its invariant.
C10_Idempotence ==
    /\ [][Again =>
            /\ NoEffect
            /\ storage'.initialDataTimestamp = storage.initialDataTimestamp]_vars
    /\ [](Again /\ rec_pc = "fatal" =>
            /\ fatal = "invariant_412"
            /\ loc.stableTimestamp # none /\ PreviousApplied
            /\ markers.appliedThrough = Top(oplog)
            /\ loc.stableTimestamp # Some(markers.appliedThrough))
    /\ [](Again /\ loc.stableTimestamp # none /\ PreviousApplied =>
            rec_pc \in {"initial_sync_flag", "recovery_timestamp", "applied_through", "fatal"})
\* The second call has returned after the first applied operations from
\* appliedThrough to the top of the oplog.
C10_Witness ==
    /\ Again /\ rec_pc = "idle" /\ fatal = "none"
    /\ PreviousApplied /\ oplog # {} /\ markers.appliedThrough = Top(oplog)

(***************************************************************************)
(* Properties of the calls of the recovery.                                *)
(***************************************************************************)
\* The call in progress or last made had the effect e.
Has(e) == \E i \in DOMAIN history.effects : history.effects[i] = e
\* A call has returned to its caller, and not by an exception.
Returned == rec_pc = "idle" /\ history.op # "none" /\ \A e \in Exceptions : ~Has(e)

\* C11: when a call of recoverFromOplog or of recoverFromOplogUpTo that was
\* made with a non-null appliedThrough has returned, appliedThrough is not
\* below the value it had at the call.
C11_AppliedThroughMonotonic ==
    Returned /\ ~isNull(history.markers.appliedThrough) =>
        markers.appliedThrough >= history.markers.appliedThrough
\* Each of the two functions has returned after moving appliedThrough forward
\* from a non-null value.
C11_Witness ==
    /\ Returned /\ calls = 2
    /\ history.op = "recoverFromOplog"
    /\ history.previous.op = "recoverFromOplogUpTo" /\ PreviousApplied
    /\ ~isNull(history.markers.appliedThrough)
    /\ markers.appliedThrough > history.markers.appliedThrough
    /\ Has("applyOplogBatch")

\* C12: a step of _truncateOplogTo(T) on an oplog with an entry at or before
\* T leaves exactly the entries at or before T, and goes on; it leaves the
\* oplog as it is when the newest entry is at or before T; it removes no
\* entry, and ends the process, when no entry is at or before T.
C12_TruncateExact ==
    [][rec_pc = "truncate_oplog" =>
        LET T == loc.truncatePoint
            kept == {e \in oplog : e <= T}
        IN  /\ kept # {} => oplog' = kept /\ rec_pc' = "clear_truncate_point"
            /\ (oplog # {} /\ Top(oplog) <= T) => oplog' = oplog
            /\ kept = {} => oplog' = oplog /\ rec_pc' = "fatal"]_vars
\* A truncation at a point that is the timestamp of no entry has removed the
\* entries after the point and kept the entries before it.
C12_Witness ==
    /\ rec_pc = "clear_truncate_point"
    /\ oplog # {} /\ history.oplog \ oplog # {}
    /\ loc.truncatePoint \notin history.oplog

\* C13: when the oplog holds no entry at the start point of the application
\* (the first entry the query returns is another one, or the query returns
\* none), the step of OplogBufferLocalOplog::startup ends the process, and
\* the call has applied no operation and has not written appliedThrough.
C13_MissingStartIsFatal ==
    /\ [][rec_pc = "buffer_startup" /\ loc.oplogApplicationStartPoint \notin oplog =>
            /\ rec_pc' = "fatal" /\ fatal' \in {"fassert_40292", "fassert_40293"}
            /\ applied' = applied /\ markers' = markers]_vars
    /\ [](rec_pc = "fatal" /\ fatal \in {"fassert_40292", "fassert_40293"} =>
            /\ Len(applied) = history.applied
            /\ markers.appliedThrough = history.markers.appliedThrough
            /\ ~Has("applyOplogBatch") /\ ~Has("setAppliedThrough"))
\* The process has ended because the first entry from the start point on is
\* not at the start point.
C13_Witness ==
    /\ rec_pc = "fatal" /\ fatal = "fassert_40292"
    /\ loc.oplogApplicationStartPoint \notin oplog
    /\ \E e \in oplog : e > loc.oplogApplicationStartPoint

Max(a, b) == IF a >= b THEN a ELSE b
\* The call in progress has a stable timestamp, and it is not null.
StableExists == loc.stableTimestamp # none /\ ~isNull(Get(loc.stableTimestamp))

\* C14 as stated: with a truncate point set and a stable timestamp, the oplog
\* is truncated at the smaller of the two.
C14_Original ==
    [][/\ rec_pc = "truncate_point" /\ StableExists
       /\ ~isNull(markers.oplogTruncateAfterPoint)
       /\ rec_pc' = "truncate_oplog"
       => loc'.truncatePoint =
            Min(markers.oplogTruncateAfterPoint, Get(loc.stableTimestamp))]_vars
\* C14 as amended: with a truncate point set and a stable timestamp, the
\* oplog is truncated at the larger of the two: the stable timestamp replaces
\* a truncate point that is not after it, and a truncate point after the
\* stable timestamp is kept. The entries left are those at or before the
\* larger one. Without an oplog collection the process ends.
C14_TruncateAtLarger ==
    /\ [][/\ rec_pc = "truncate_point" /\ StableExists
          /\ ~isNull(markers.oplogTruncateAfterPoint)
          => \/ /\ rec_pc' = "truncate_oplog"
                /\ loc'.truncatePoint =
                     Max(markers.oplogTruncateAfterPoint, Get(loc.stableTimestamp))
             \/ /\ rec_pc' = "fatal" /\ ~storage.hasOplog
                /\ markers.oplogTruncateAfterPoint <= Get(loc.stableTimestamp)]_vars
    /\ [](rec_pc = "clear_truncate_point" /\ StableExists =>
            oplog = {e \in history.oplog :
                       e <= Max(history.markers.oplogTruncateAfterPoint,
                                Get(loc.stableTimestamp))})
\* With a truncate point after the stable timestamp, the truncation has
\* removed the entries after the truncate point and kept an entry after the
\* stable timestamp.
C14_Witness ==
    /\ rec_pc = "clear_truncate_point" /\ StableExists
    /\ history.markers.oplogTruncateAfterPoint > Get(loc.stableTimestamp)
    /\ history.oplog \ oplog # {}
    /\ \E e \in oplog : e > Get(loc.stableTimestamp)

\* C15: a call of recoverFromOplog made with the initial sync flag set
\* returns at once: it never sets inReplicationRecovery, and the oplog, the
\* applied operations, the markers (appliedThrough and the truncate point
\* among them) and the storage engine's timestamps stay as they were.
C15_InitialSyncReturns ==
    /\ [](history.op = "recoverFromOplog" /\ history.markers.initialSyncFlag =>
            /\ rec_pc \in {"initial_sync_flag", "idle"}
            /\ ~inReplicationRecovery
            /\ oplog = history.oplog /\ markers = history.markers
            /\ storage = history.storage /\ Len(applied) = history.applied
            /\ history.effects = <<>>)
    /\ [][rec_pc = "initial_sync_flag" /\ markers.initialSyncFlag =>
            rec_pc' = "idle"]_vars
\* A call with the flag set has returned with an oplog, a truncate point and
\* an appliedThrough that would have given it work.
C15_Witness ==
    /\ Returned /\ history.op = "recoverFromOplog" /\ markers.initialSyncFlag
    /\ ~isNull(markers.oplogTruncateAfterPoint) /\ ~isNull(markers.appliedThrough)
    /\ \E e \in oplog : e > markers.appliedThrough

\* The positions of recoverFromOplog from the truncation of the oplog to the
\* end of the application of its entries.
TruncationAndReplay ==
    {"truncate_point", "truncate_oplog", "clear_truncate_point", "wait_until_durable",
     "top_of_oplog", "recover", "set_oldest_timestamp", "apply_to_end",
     "buffer_startup", "apply_batch", "apply_done", "set_initial_data_timestamp",
     "set_applied_through", "wait_unjournaled"}

\* C16: inReplicationRecovery is true at every position of recoverFromOplog
\* from the truncation to the end of the replay, every return of the function
\* sets it to false, and it is false whenever the function has returned.
C16_FlagScope ==
    /\ [](loc.caller = "recoverFromOplog" /\ rec_pc \in TruncationAndReplay =>
            inReplicationRecovery)
    /\ [][loc.caller = "recoverFromOplog" /\ rec_pc' = "idle" =>
            ~inReplicationRecovery']_vars
    /\ [](rec_pc = "idle" => ~inReplicationRecovery)
\* The function has returned, with the flag false, after a truncation and a
\* replay on the unstable path.
C16_Witness ==
    /\ Returned /\ history.op = "recoverFromOplog" /\ ~inReplicationRecovery
    /\ Has("_truncateOplogTo") /\ Has("applyOplogBatch")
    /\ Has("waitUntilUnjournaledWritesDurable")

\* C17: recoverFromOplog goes past its invariant only with no stable
\* timestamp, a null one, a null appliedThrough, or a stable timestamp equal
\* to appliedThrough; otherwise the process ends there, with no truncation,
\* no operation applied and no marker or storage timestamp written.
C17_InvariantGate ==
    /\ [](loc.caller = "recoverFromOplog" /\ rec_pc \in TruncationAndReplay =>
            \/ loc.stableTimestamp = none
            \/ isNull(Get(loc.stableTimestamp))
            \/ isNull(history.markers.appliedThrough)
            \/ Get(loc.stableTimestamp) = history.markers.appliedThrough)
    /\ [][/\ rec_pc = "applied_through"
          /\ loc.stableTimestamp # none /\ ~isNull(Get(loc.stableTimestamp))
          /\ ~isNull(markers.appliedThrough)
          /\ Get(loc.stableTimestamp) # markers.appliedThrough
          => rec_pc' = "fatal" /\ fatal' = "invariant_412"]_vars
    /\ [](rec_pc = "fatal" /\ fatal = "invariant_412" =>
            /\ oplog = history.oplog /\ markers = history.markers
            /\ storage = history.storage /\ Len(applied) = history.applied
            /\ history.effects = <<>>)
\* The first call has ended the process at the invariant, with a truncate
\* point set and entries after appliedThrough in the oplog.
C17_Witness ==
    /\ rec_pc = "fatal" /\ fatal = "invariant_412" /\ calls = 1
    /\ ~isNull(markers.oplogTruncateAfterPoint)
    /\ \E e \in oplog : e > markers.appliedThrough

\* C18: when the oplog is empty at the read of its top, recoverFromOplog
\* returns, with or without a stable timestamp; the call has applied no
\* operation and has left appliedThrough, the oldest timestamp and the
\* initial data timestamp as they were.
C18_EmptyOplogReturns ==
    /\ [][rec_pc = "top_of_oplog" /\ oplog = {} =>
            /\ rec_pc' = "idle" /\ fatal' = fatal
            /\ applied' = applied /\ markers' = markers /\ storage' = storage]_vars
    /\ [](/\ history.op = "recoverFromOplog" /\ oplog = {}
          /\ rec_pc \in {"top_of_oplog", "idle"}
          => /\ Len(applied) = history.applied
             /\ markers.appliedThrough = history.markers.appliedThrough
             /\ storage.oldestTimestamp = history.storage.oldestTimestamp
             /\ storage.initialDataTimestamp = history.storage.initialDataTimestamp)
\* A call without the initial sync flag has returned on an empty oplog
\* collection, with a non-null appliedThrough.
C18_Witness ==
    /\ Returned /\ history.op = "recoverFromOplog" /\ ~markers.initialSyncFlag
    /\ storage.hasOplog /\ oplog = {}
    /\ ~isNull(markers.appliedThrough)

\* The effects of a call after those of the truncation of the oplog.
AfterTruncation(effects) ==
    SelectSeq(effects, LAMBDA e : e \notin {"_truncateOplogTo",
                                           "setOplogTruncateAfterPoint",
                                           "waitUntilDurable"})
\* The oldest timestamp is set, batches are applied (the application records
\* appliedThrough at its end), the initial data timestamp is set,
\* appliedThrough is set, and the unjournaled writes are made durable.
UnstableOrder(effects) ==
    LET s == AfterTruncation(effects)
        n == Len(s)
    IN  /\ n >= 6
        /\ s[1] = "setOldestTimestamp"
        /\ \A i \in 2..(n - 4) : s[i] = "applyOplogBatch"
        /\ s[n - 3] = "setAppliedThrough"
        /\ s[n - 2] = "setInitialDataTimestamp"
        /\ s[n - 1] = "setAppliedThrough"
        /\ s[n] = "waitUntilUnjournaledWritesDurable"
\* recoverFromOplog is on the unstable path with a non-null appliedThrough
\* below the top of the oplog.
UnstableBelowTop ==
    /\ loc.caller = "recoverFromOplog" /\ loc.stableTimestamp = none
    /\ ~isNull(loc.appliedThrough) /\ loc.topOfOplog > loc.appliedThrough

\* C19: on the unstable path with a non-null appliedThrough A below the top
\* T of the oplog, recoverFromOplog returns only from the barrier of the
\* unjournaled writes, and has then, in this order, set the oldest timestamp
\* to A, applied the entries after A up to T, set the initial data timestamp
\* to T, set appliedThrough to T and passed the barrier; at each of these
\* positions the effects before it are in place.
C19_UnstableOrder ==
    /\ [][UnstableBelowTop /\ rec_pc' = "idle" =>
            /\ rec_pc = "wait_unjournaled"
            /\ UnstableOrder(history'.effects)
            /\ storage'.oldestTimestamp = loc.appliedThrough
            /\ storage'.initialDataTimestamp = loc.topOfOplog
            /\ markers'.appliedThrough = loc.topOfOplog
            /\ SubSeq(applied', history.applied + 1, Len(applied')) =
                 Ascending({e \in oplog : loc.appliedThrough < e /\ e <= loc.topOfOplog})]_vars
    /\ [](UnstableBelowTop /\ rec_pc \in {"buffer_startup", "apply_batch"} =>
            /\ storage.oldestTimestamp = loc.appliedThrough
            /\ storage.initialDataTimestamp = history.storage.initialDataTimestamp)
    /\ [](UnstableBelowTop /\ rec_pc = "set_initial_data_timestamp" =>
            /\ Has("applyOplogBatch")
            /\ storage.initialDataTimestamp = history.storage.initialDataTimestamp)
    /\ [](UnstableBelowTop /\ rec_pc = "set_applied_through" =>
            storage.initialDataTimestamp = loc.topOfOplog)
\* A call has returned on the unstable path after a replay of two entries or
\* more from a non-null appliedThrough.
C19_Witness ==
    /\ Returned /\ history.op = "recoverFromOplog"
    /\ UnstableOrder(history.effects)
    /\ ~isNull(history.markers.appliedThrough)
    /\ Len(applied) >= history.applied + 2
    /\ markers.appliedThrough = Top(oplog)
    /\ storage.initialDataTimestamp = Top(oplog)
    /\ storage.oldestTimestamp = history.markers.appliedThrough

\* recoverFromOplog is on the unstable path with a null appliedThrough, at
\* the choice of the path or after it.
UnstableNull ==
    /\ loc.caller = "recoverFromOplog" /\ loc.stableTimestamp = none
    /\ isNull(loc.appliedThrough)
    /\ rec_pc \in {"recover", "set_initial_data_timestamp", "set_applied_through",
                   "wait_unjournaled"}

\* C20 as stated: on the unstable path with a null appliedThrough the call
\* returns at the choice of the path, and no step of it from there on applies
\* an operation, changes the oldest timestamp, the initial data timestamp or
\* appliedThrough, or is the barrier of the unjournaled writes.
C20_Original ==
    /\ [][UnstableNull =>
            /\ applied' = applied
            /\ storage'.oldestTimestamp = storage.oldestTimestamp
            /\ storage'.initialDataTimestamp = storage.initialDataTimestamp
            /\ markers'.appliedThrough = markers.appliedThrough]_vars
    /\ [][UnstableNull /\ rec_pc = "recover" => rec_pc' = "idle"]_vars
    /\ [](UnstableNull => rec_pc # "wait_unjournaled")
\* C20 as amended: on the unstable path with a null appliedThrough the call
\* applies no operation and does not change the oldest timestamp, but it goes
\* on to set the initial data timestamp to the top of the oplog, to set
\* appliedThrough to the top of the oplog and to the barrier of the
\* unjournaled writes, and returns only from the barrier.
C20_NullAppliedThrough ==
    /\ [][UnstableNull =>
            /\ applied' = applied
            /\ storage'.oldestTimestamp = storage.oldestTimestamp]_vars
    /\ [][UnstableNull /\ rec_pc' = "idle" =>
            /\ rec_pc = "wait_unjournaled"
            /\ AfterTruncation(history'.effects) =
                 <<"setInitialDataTimestamp", "setAppliedThrough",
                   "waitUntilUnjournaledWritesDurable">>
            /\ storage'.initialDataTimestamp = loc.topOfOplog
            /\ markers'.appliedThrough = loc.topOfOplog]_vars
    /\ [][UnstableNull /\ rec_pc = "recover" =>
            rec_pc' = "set_initial_data_timestamp"]_vars
\* A call made with a null appliedThrough and no stable timestamp has
\* returned with appliedThrough and the initial data timestamp at the top of
\* the oplog, having applied nothing.
C20_Witness ==
    /\ Returned /\ history.op = "recoverFromOplog"
    /\ isNull(history.markers.appliedThrough)
    /\ AfterTruncation(history.effects) =
         <<"setInitialDataTimestamp", "setAppliedThrough",
           "waitUntilUnjournaledWritesDurable">>
    /\ Len(applied) = history.applied
    /\ markers.appliedThrough = Top(oplog)
    /\ storage.initialDataTimestamp = Top(oplog)

\* recoverFromOplog is on the stable path, after the read of the top of the
\* oplog, with a stable timestamp equal to the top.
StableAtTop ==
    /\ loc.caller = "recoverFromOplog" /\ storage.supportsRecoveryTimestamp
    /\ loc.stableTimestamp # none /\ ~isNull(loc.topOfOplog)
    /\ Get(loc.stableTimestamp) = loc.topOfOplog

\* C21: on the stable path with the stable timestamp at the top of the oplog,
\* _applyToEndOfOplog returns at once and recoverFromOplog returns: the
\* buffer of the oplog is never started, no operation is applied, and no
\* marker and no timestamp of the storage engine is written.
C21_StartAtTop ==
    /\ [](StableAtTop =>
            /\ rec_pc \in {"recover", "apply_to_end"}
            /\ AfterTruncation(history.effects) = <<>>
            /\ Len(applied) = history.applied
            /\ markers.appliedThrough = history.markers.appliedThrough)
    /\ [][StableAtTop /\ rec_pc = "apply_to_end" =>
            /\ rec_pc' = "idle" /\ fatal' = fatal
            /\ oplog' = oplog /\ markers' = markers /\ storage' = storage
            /\ applied' = applied /\ history' = history]_vars
\* A call with the stable timestamp at the top of an oplog of two entries or
\* more has returned without an effect.
C21_Witness ==
    /\ Returned /\ history.op = "recoverFromOplog" /\ ~markers.initialSyncFlag
    /\ storage.supportsRecoveryTimestamp
    /\ Cardinality(oplog) >= 2 /\ arg = Some(Top(oplog))
    /\ history.effects = <<>> /\ Len(applied) = history.applied

C23_BoundedByEndPoint ==
    /\ [](loc.caller = "recoverFromOplogUpTo" =>
            \A i \in (history.applied + 1)..Len(applied) : applied[i] <= loc.endPoint)
    /\ [][loc.caller = "recoverFromOplogUpTo" =>
            \/ markers'.appliedThrough = markers.appliedThrough
            \/ markers'.appliedThrough <= loc.endPoint]_vars
    /\ [][/\ loc.caller = "recoverFromOplogUpTo" /\ rec_pc' = "idle"
          /\ Len(applied') > history.applied
          /\ \A i \in DOMAIN history'.effects : history'.effects[i] \notin Exceptions
          => markers'.appliedThrough <= loc.endPoint]_vars
\* A call of recoverFromOplogUpTo has applied operations and returned with
\* appliedThrough below the top of the oplog: the entries after its end point
\* were left.
C23_Witness ==
    /\ Returned /\ history.op = "recoverFromOplogUpTo"
    /\ Has("applyOplogBatch") /\ Len(applied) > history.applied
    /\ markers.appliedThrough < Top(oplog)
    /\ markers.appliedThrough > history.markers.appliedThrough

\* recoverFromOplogAsStandalone was called without a stable checkpoint.
StandaloneUnstable ==
    /\ history.op = "recoverFromOplogAsStandalone"
    /\ history.storage.recoveryTimestamp = none
\* No recovery is needed: the initial sync flag is clear, the truncate point
\* is null, the oplog is not empty, appliedThrough is null or at the top of
\* the oplog, and minValid is not after the top.
NoRecoveryNeeded ==
    /\ ~markers.initialSyncFlag
    /\ isNull(markers.oplogTruncateAfterPoint)
    /\ storage.hasOplog /\ oplog # {}
    /\ isNull(markers.appliedThrough) \/ markers.appliedThrough = Top(oplog)
    /\ markers.minValid <= Top(oplog)

\* C24: a call of recoverFromOplogAsStandalone without a stable checkpoint
\* goes on past its checks only with takeUnstableCheckpointOnShutdown set and
\* no recovery needed, and ends the process otherwise; it changes no marker
\* and no oplog entry and applies nothing, and when it has returned, the
\* server is read-only.
C24_StandaloneUnstable ==
    /\ [](StandaloneUnstable =>
            /\ oplog = history.oplog /\ markers = history.markers
            /\ Len(applied) = history.applied
            /\ rec_pc \in {"standalone_precursor", "assert_no_recovery_needed",
                           "standalone_finish", "idle", "fatal"})
    /\ [](StandaloneUnstable /\ rec_pc \in {"standalone_finish", "idle"} =>
            /\ storage.takeUnstableCheckpointOnShutdown /\ NoRecoveryNeeded
            /\ rec_pc = "idle" => storage.readOnly)
    /\ [][/\ StandaloneUnstable
          /\ rec_pc \in {"standalone_precursor", "assert_no_recovery_needed"}
          /\ ~(storage.takeUnstableCheckpointOnShutdown /\ NoRecoveryNeeded)
          => rec_pc' \in {"assert_no_recovery_needed", "fatal"}]_vars
    /\ [][/\ StandaloneUnstable /\ rec_pc = "assert_no_recovery_needed"
          /\ NoRecoveryNeeded
          => rec_pc' = "standalone_finish"]_vars
\* A call without a stable checkpoint has returned, read-only, with
\* appliedThrough and a non-null minValid at the top of the oplog.
C24_Witness ==
    /\ StandaloneUnstable /\ rec_pc = "idle" /\ storage.readOnly
    /\ markers.appliedThrough = Top(oplog)
    /\ markers.minValid = Top(oplog) /\ Cardinality(oplog) >= 2

\* C25: when the loop of _applyOplogOperations has ended, the buffer is
\* empty; if the call applied an operation, appliedThrough is then written
\* with the optime of the last batch, which is the last operation applied,
\* and on the way to the end of the oplog that optime is the top of the
\* oplog; if the call applied none, appliedThrough is not written.
C25_AfterLoop ==
    /\ [](rec_pc = "apply_done" =>
            /\ loc.oplogBuffer = <<>>
            /\ Len(applied) > history.applied <=> ~isNull(loc.applyThroughOpTime)
            /\ Len(applied) > history.applied =>
                 loc.applyThroughOpTime = applied[Len(applied)])
    /\ [][rec_pc = "apply_done" =>
            IF Len(applied) > history.applied
              THEN /\ markers'.appliedThrough = applied[Len(applied)]
                   /\ history'.effects = Append(history.effects, "setAppliedThrough")
              ELSE markers' = markers /\ history' = history]_vars
    /\ [][rec_pc = "apply_done" /\ loc.caller = "recoverFromOplog" =>
            /\ rec_pc' # "fatal"
            /\ markers'.appliedThrough = loc.topOfOplog]_vars
\* After a loop of two batches, appliedThrough was written with the last
\* operation applied.
C25_Witness ==
    /\ rec_pc = "reconstruct_prepared_transactions"
    /\ Len(SelectSeq(history.effects, LAMBDA e : e = "applyOplogBatch")) = 2
    /\ Has("setAppliedThrough")
    /\ markers.appliedThrough = applied[Len(applied)]
    /\ markers.appliedThrough > history.markers.appliedThrough

\* The operations the call in progress has applied, in order.
AppliedInCall == SubSeq(applied, history.applied + 1, Len(applied))
\* The timestamps of s ascend, none twice.
StrictlyAscending(s) == \A i, j \in DOMAIN s : i < j => s[i] < s[j]
\* The entries of a sequence.
Entries(s) == {s[i] : i \in DOMAIN s}

\* C26: the buffer of a replay from start to end holds, after its startup,
\* the oplog entries after start up to end in ascending order, the entry at
\* start having been read and dropped; the operations applied and the
\* entries still in the buffer are together those entries, each once and in
\* ascending order, and when the loop has ended the operations applied are
\* exactly the entries after start up to end.
C26_ReplayRange ==
    /\ [](rec_pc \in {"apply_batch", "apply_done"} =>
            LET s == AppliedInCall \o loc.oplogBuffer
            IN  /\ StrictlyAscending(s)
                /\ Entries(s) = {e \in oplog : /\ loc.oplogApplicationStartPoint < e
                                               /\ e <= loc.endPoint}
                /\ loc.oplogApplicationStartPoint \in oplog)
    /\ [](rec_pc = "apply_done" =>
            /\ StrictlyAscending(AppliedInCall)
            /\ Entries(AppliedInCall) =
                 {e \in oplog : /\ loc.oplogApplicationStartPoint < e
                                /\ e <= loc.endPoint})
    /\ [][rec_pc = "buffer_startup" /\ rec_pc' = "apply_batch" =>
            /\ applied' = applied
            /\ loc.oplogApplicationStartPoint \notin Entries(loc'.oplogBuffer)]_vars
\* A replay has dropped the entry at its start point, applied the entry
\* after it and left an entry after its end point.
C26_Witness ==
    /\ rec_pc = "apply_done" /\ Len(AppliedInCall) = 1
    /\ loc.oplogApplicationStartPoint \in oplog
    /\ \E e \in oplog : e > loc.endPoint

\* A batch fails: a step of the loop with entries in the buffer that applies
\* none.
BatchFails == rec_pc = "apply_batch" /\ loc.oplogBuffer # <<>> /\ applied' = applied

\* C27: when the application of a batch fails, the process ends: neither
\* recoverFromOplog nor recoverFromOplogUpTo returns or hands the failure to
\* its caller.
C27_ReplayFailureIsFatal ==
    [][BatchFails => rec_pc' = "fatal" /\ fatal' = "fatal_21570"]_vars
\* The same of recoverFromOplog alone, where the catch of the function ends
\* the process.
RecoverFromOplogFailureIsFatal ==
    [][BatchFails /\ loc.caller = "recoverFromOplog" =>
         rec_pc' = "fatal" /\ fatal' = "fatal_21570"]_vars

\* recoverFromOplogUpTo has handed the failure of a batch to its caller after
\* an earlier batch of the same call was applied.
C27_Witness ==
    /\ rec_pc = "idle"
    /\ history.op = "recoverFromOplogUpTo"
    /\ Has("applyOplogBatch failed")
    /\ Len(applied) > history.applied
    /\ fatal = "none"

\* C28: a step of _truncateOplogTo(T) on an oplog collection with no entry
\* at or before T, whether it is empty or holds only entries after T, ends
\* the process at fassert 40296 and removes no entry.
C28_ScanToEndIsFatal ==
    [][(/\ rec_pc = "truncate_oplog" /\ storage.hasOplog
        /\ \A e \in oplog : e > loc.truncatePoint)
       => rec_pc' = "fatal" /\ fatal' = "fassert_40296" /\ oplog' = oplog]_vars
\* The scan of an oplog whose entries are all after the truncate point has
\* ended the process, the entries in place.
C28_Witness ==
    /\ fatal = "fassert_40296"
    /\ Cardinality(oplog) >= 2 /\ oplog = history.oplog
    /\ \A e \in oplog : e > loc.truncatePoint
    /\ ~isNull(loc.truncatePoint)

(***************************************************************************)
(* Properties of the lists and of the accounting of __las_page_instantiate. *)
(***************************************************************************)
\* __las_page_instantiate has returned 0 to the session a, and
\* __wt_cache_read has not failed since.
Instantiated(a) ==
    /\ las_update /\ las_written /\ ref.has_addr
    /\ pc[a] \in {"verbose", "publish"} \/ (pc[a] = "done" /\ ret[a] = "ok")
\* The entries of the block with the user key k.
KeyEntries(k) ==
    {e \in las : OfBlock(e, ReadPrefix.id, ReadPrefix.addr) /\ e.key = k}
\* The updates built from the entries with the user key k.
KeyUpdates(k) == {u \in heap : u.src.key = k}
\* The members of a list.
Members(l) == {l[i] : i \in 1..Len(l)}
\* A pass of the loop of the session a that examines an entry of the block
\* and does not fail: the cursor moves on.
Examines(a) ==
    /\ pc[a] = "las_loop" /\ pc'[a] \in {"las_loop", "las_finish"}
    /\ cursor'[a] # cursor[a]
    /\ OfBlock(cursor[a], ReadPrefix.id, ReadPrefix.addr)

\* C29: the entries of a user key being contiguous, a pass of the loop over
\* an entry that is visible to all builds and inserts nothing; a pass over
\* an entry that is not adds an update built from it to the list of its key,
\* and, when the key differs from the key of the list built so far, first
\* inserts that list into the page under its own key; the list left after
\* the scan is inserted under the last key.  After a scan that succeeded, the
\* page holds for every user key exactly the updates built from the entries
\* of that key, each once, which are at least those of the entries not
\* visible to all now; a key with no update built has no list.
C29_ChainPerKey ==
    /\ [][\A a \in Actors : Examines(a) =>
            LET e == cursor[a]
                u == UpdateAlloc(e, a)
                same == current_key[a] = e.key
            IN  IF VisibleAll(e.txnid)
                  THEN /\ heap' = heap /\ ref' = ref
                       /\ first_upd'[a] = first_upd[a] /\ current_key'[a] = current_key[a]
                  ELSE /\ heap' = heap \cup {u} /\ u \notin heap
                       /\ current_key'[a] = e.key
                       /\ first_upd'[a] = (IF same THEN first_upd[a] ELSE <<>>) \o <<u>>
                       /\ ref'.page.upd =
                            IF same \/ first_upd[a] = <<>> THEN ref.page.upd
                            ELSE [ref.page.upd EXCEPT ![current_key[a]] = first_upd[a]]]_vars
    /\ [][\A a \in Actors :
            (pc[a] = "las_finish" /\ pc'[a] = "verbose") =>
                ref'.page.upd =
                    IF first_upd[a] = <<>> THEN ref.page.upd
                    ELSE [ref.page.upd EXCEPT ![current_key[a]] = first_upd[a]]]_vars
    /\ [](\A a \in Actors : pc[a] \in {"las_loop", "las_finish"} =>
            \A k \in UserKeys :
                /\ Members(ref.page.upd[k]) \cap Members(first_upd[a]) = {}
                /\ (first_upd[a] # <<>> /\ k = current_key[a]) => ref.page.upd[k] = <<>>)
    /\ [](\A a \in Actors : Instantiated(a) =>
            \A k \in UserKeys :
                /\ Members(ref.page.upd[k]) = KeyUpdates(k)
                /\ Len(ref.page.upd[k]) = Cardinality(KeyUpdates(k))
                /\ {u.src : u \in KeyUpdates(k)} \subseteq KeyEntries(k)
                /\ {e \in KeyEntries(k) : ~VisibleAll(e.txnid)}
                       \subseteq {u.src : u \in KeyUpdates(k)})
\* A scan has succeeded over a block with entries of two user keys: one key
\* has a list of two updates, the other has an entry, all its entries were
\* visible to all, and it has no list.
C29_Witness ==
    /\ Instantiated(1) /\ pc[1] = "done"
    /\ \E k, m \in UserKeys :
        /\ Len(ref.page.upd[k]) = 2
        /\ KeyEntries(m) # {} /\ ref.page.upd[m] = <<>>

\* The bytes of a set of update structures.
RECURSIVE SumSizes(_)
SumSizes(S) ==
    IF S = {} THEN 0
    ELSE LET u == CHOOSE x \in S : TRUE IN UpdateMemsize(u) + SumSizes(S \ {u})
\* The session is inside __las_page_instantiate.
InLasPageInstantiate(a) ==
    pc[a] \in {"las_open", "las_search", "las_loop", "las_finish", "las_err"}

\* C30: the step that ends a scan with success adds to the memory footprint
\* of the page the bytes of the updates the scan built, all of which are on
\* the page, and no step before it changes the footprint; when
\* updates were inserted the page is left clean, and stays clean until it is
\* published; no step of __las_page_instantiate changes the lookaside table.
C30_FootprintAndClean ==
    /\ [][\A a \in Actors :
            (pc[a] = "las_finish" /\ pc'[a] = "verbose") =>
                LET added == PageUpdates(ref'.page)
                IN  /\ added = heap
                    /\ ref'.page.memory_footprint =
                           ref.page.memory_footprint + SumSizes(added)
                    /\ added # {} => ~ref'.page.dirty
                    /\ added = {} => ref'.page.dirty = ref.page.dirty]_vars
    /\ [][\A a \in Actors :
            pc[a] \in {"las_open", "las_search", "las_loop"} =>
                ref'.page.memory_footprint = ref.page.memory_footprint]_vars
    /\ [][(\E a \in Actors : InLasPageInstantiate(a)) => las' = las]_vars
    /\ [](\A a \in Actors : Instantiated(a) =>
            /\ ref.page.memory_footprint = SumSizes(PageUpdates(ref.page))
            /\ PageUpdates(ref.page) # {} => ~ref.page.dirty
            /\ {u.src : u \in PageUpdates(ref.page)} \subseteq las)
\* The page of a deleted ref, marked dirty when its deletion was
\* instantiated, is published clean with a tombstone and a value on it, three
\* bytes in all, and the entries they were built from are in the table.
C30_Witness ==
    /\ Instantiated(1) /\ pc[1] = "done"
    /\ ref.page.deleted /\ ~ref.page.dirty
    /\ Cardinality(PageUpdates(ref.page)) = 2
    /\ ref.page.memory_footprint = 3
    /\ PageSources \subseteq las

(***************************************************************************)
(* Properties of the truncation across crashes.                            *)
(***************************************************************************)
\* The stable timestamp of the call in progress or last made: the one
\* passed, or the recovery timestamp of the storage engine.
StableAtCall ==
    IF history.arg # none THEN history.arg
    ELSE IF history.storage.supportsRecoveryTimestamp
      THEN history.storage.recoveryTimestamp
    ELSE none
\* The point after which that call had to truncate the oplog.
TruncateBound ==
    IF NotAfterStable(history.markers.oplogTruncateAfterPoint, StableAtCall)
      THEN Get(StableAtCall)
      ELSE history.markers.oplogTruncateAfterPoint
\* The positions of recoverFromOplog after the truncation.
Replay ==
    {"top_of_oplog", "recover", "set_oldest_timestamp", "apply_to_end",
     "buffer_startup", "apply_batch", "apply_done", "set_initial_data_timestamp",
     "set_applied_through", "wait_unjournaled"}

C32_RemovalBenign ==
    /\ [](\A r \in Removers : rpc[r] = "rb_loop" =>
            ENABLED (RemoveLoop(r) /\ rret'[r] # "error"))
    /\ [](\A a \in Actors : pc[a] = "las_loop" =>
            ENABLED (LasLoop(a) /\ pc'[a] # "las_err"))
    /\ [](\A a \in Actors : pc[a] = "las_finish" =>
            ENABLED (LasFinish(a) /\ pc'[a] = "verbose"))
    /\ [][/\ \A a \in Actors :
               (cursor'[a] # cursor[a] /\ cursor'[a] # NoEntry) => cursor'[a] \in las
          /\ \A r \in Removers :
               (rcursor'[r] # rcursor[r] /\ rcursor'[r] # NoEntry) => rcursor'[r] \in las'
          /\ \A u \in heap' \ heap :
               \E a \in Actors : u.src = cursor[a] /\ ~VisibleAll(u.src.txnid)]_vars
    /\ []((\A r \in Removers : rpc[r] = "done" /\ rret[r] = "ok") =>
            \A e \in las : ~OfBlock(e, ReadPrefix.id, ReadPrefix.addr))
\* The removal has returned success while the scan of the fault, which has
\* built an update, is on an entry the removal took from the table, not
\* visible to all.
C32_Witness ==
    /\ pc[1] = "las_loop" /\ heap # {}
    /\ cursor[1] \notin las /\ ~VisibleAll(cursor[1].txnid)
    /\ OfBlock(cursor[1], ReadPrefix.id, ReadPrefix.addr)
    /\ rpc[1] = "done" /\ rret[1] = "ok"

\* The operations the call in progress or last made has applied.
AppliedSinceCall == {applied[i] : i \in (history.applied + 1)..Len(applied)}

\* C33: a call of recoverFromOplog made with the truncate point set applies
\* no operation with a timestamp after that truncate point; from the read of
\* the top of the oplog on, the truncation is done and the oplog holds no
\* entry after the point of the truncation, and neither the top that was read
\* nor the start and the end of the application is after that point.
C33_NoReplayOfTail ==
    (history.op = "recoverFromOplog" /\ ~isNull(history.markers.oplogTruncateAfterPoint)) =>
        /\ \A t \in AppliedSinceCall : t <= history.markers.oplogTruncateAfterPoint
        /\ rec_pc \in Replay =>
             /\ Has("_truncateOplogTo")
             /\ \A e \in oplog : e <= TruncateBound
             /\ loc.topOfOplog <= TruncateBound
             /\ loc.endPoint <= TruncateBound
             /\ \A i \in 1..Len(loc.oplogBuffer) : loc.oplogBuffer[i] <= TruncateBound
\* A call made with the truncate point set has removed the entries after it
\* and has returned after applying an operation.
C33_Witness ==
    /\ Returned /\ history.op = "recoverFromOplog"
    /\ ~isNull(history.markers.oplogTruncateAfterPoint)
    /\ history.oplog \ oplog # {}
    /\ AppliedSinceCall # {}

(***************************************************************************)
(* Termination of the page read.                                           *)
(***************************************************************************)
\* The session a has won a compare-and-swap and has not yet returned.
Won(a) == pc[a] \notin {"idle", "cas_disk", "cas_deleted", "done"}

\* C34: a ref is in WT_REF_READING or WT_REF_LOCKED only while a session that
\* won the compare-and-swap has not returned; with every call returning in
\* the end, a session that has won returns, so that no session is left in
\* the read and the ref has left the two states; and the step by which it
\* returns leaves the ref in WT_REF_MEM, on success, or in the state it had
\* before the compare-and-swap, WT_REF_DISK or WT_REF_DELETED, on an error.
C34_NoStuckRef ==
    /\ [](ref.state \in {WT_REF_READING, WT_REF_LOCKED} => \E a \in Actors : Won(a))
    /\ (\E a \in Actors : Won(a)) ~> (\A a \in Actors : ~Won(a))
    /\ [][\A a \in Actors :
            (Won(a) /\ pc'[a] = "done") =>
                /\ previous_state[a] \in {WT_REF_DISK, WT_REF_DELETED}
                /\ IF ret'[a] = "ok" THEN ref'.state = WT_REF_MEM
                                     ELSE ref'.state = previous_state[a]]_vars
\* A session that won the compare-and-swap on a deleted ref has failed after
\* the read of the block and has returned, the ref back in WT_REF_DELETED
\* with no page.
C34_Witness ==
    \E a \in Actors :
        /\ pc[a] = "done" /\ ret[a] = "error"
        /\ previous_state[a] = WT_REF_DELETED
        /\ ref.state = WT_REF_DELETED /\ ref.page = NULL
        /\ nread[a] = 1 /\ las_update /\ las_written
====
